---- MODULE Spec2Model ----
(***************************************************************************)
(* Littlewood fractal: polynomial index encoding, the Durand-Kerner root   *)
(* solver and the batched, frame-sliced rendering driver of FractalCanvas. *)
(*                                                                         *)
(* Numbers.  The program computes with IEEE doubles.  Here a `number` is   *)
(* an integer count of 1/Scale units and every product, quotient and       *)
(* square root is rounded to the nearest unit, so that - as with doubles - *)
(* a product of two non-zero numbers can round to zero and a quotient is   *)
(* in general inexact.  Thresholds such as 1e-6 are kept as decimal        *)
(* mantissa/exponent pairs and compared exactly.                           *)
(*                                                                         *)
(* Sequences are 1-based: coeffs[k] of the program is coeffs[k+1] here.    *)
(***************************************************************************)
EXTENDS Integers, Sequences, FiniteSets, TLC

(***************************************************************************)
(* Bounds of the model                                                     *)
(***************************************************************************)
MaxDegree == 2          \* largest polynomial degree explored
MaxPaletteLen == 2      \* longest coefficient palette explored
MaxIterBound == 7       \* largest maxIter handed to a stand-alone solve
MaxBatch == 2           \* largest BATCH_SIZE a run is given
MaxRuns == 2            \* most runs renderFractal starts (caps renderingRef.id)
MaxOverlayRuns == 3     \* caps overlayRenderingRef.id
NeighborRange == 1      \* the polynomialNeighborRange the parent passes
MaxSlot == 4            \* last slot a scan of the sampler asks for
MaxStride == 3          \* largest base stride the sampler is given
MaxBatchDegree == 31    \* largest degree of the degree slider handed to getBatchSize
MaxBatchCoeffs == 30    \* largest palette length handed to getBatchSize
CostlyDegree == 160     \* a degree beyond the slider, costly enough for a base batch of 0
MaxGestures == 2        \* most transform gestures made one after the other

(***************************************************************************)
(* The number type                                                         *)
(***************************************************************************)
Scale == 8

\* nearest integer to n/d, halves rounded up (d > 0)
RoundDiv(n, d) == (2 * n + d) \div (2 * d)

\* x * y
NumMul(x, y) == RoundDiv(x * y, Scale)

\* x / y for y # 0
NumDiv(x, y) == IF y > 0 THEN RoundDiv(x * Scale, y) ELSE RoundDiv((0 - x) * Scale, 0 - y)

RECURSIVE ISqrt(_)
\* floor of the square root of n >= 0
ISqrt(n) ==
  IF n < 2 THEN n
  ELSE LET small == 2 * ISqrt(n \div 4)
           large == small + 1
       IN  IF large * large > n THEN small ELSE large

\* Math.sqrt(x) for x >= 0, rounded to the nearest unit
MathSqrt(x) ==
  LET n == x * Scale
      r == ISqrt(n)
  IN  IF n - r * r > r THEN r + 1 ELSE r

RECURSIVE Pow(_, _)
\* Math.pow(b, e) for integers b >= 0, e >= 0
Pow(b, e) == IF e = 0 THEN 1 ELSE b * Pow(b, e - 1)

\* Math.min and Math.max
MathMin(a, b) == IF a < b THEN a ELSE b

MathMax(a, b) == IF a > b THEN a ELSE b

\* the one element of a singleton set.  Written {F(x) : x \in {e}}, the set
\* holds F of the value of e, with e computed once: the way a statement uses a
\* value an earlier statement stored
TheOne(S) == CHOOSE x \in S : TRUE

\* Math.ceil(a / b) for a >= 0, b > 0
CeilDiv(a, b) == (a + b - 1) \div b

RECURSIVE LessThanDecimal(_, _, _)
\* v / s < 10^(-e) for integers v, s >= 0: v * 10^e < s
LessThanDecimal(v, s, e) ==
  IF e = 0 THEN v < s ELSE LessThanDecimal(v, (s + 9) \div 10, e - 1)

\* x < c for a number x >= 0 and a decimal constant c = mant * 10^(-exp), mant = 1
LessThan(x, c) == LessThanDecimal(x, Scale * c.mant, c.exp)

\* the number nearest to the decimal constant c (exp <= 9)
FromDecimal(c) == RoundDiv(c.mant * Scale, Pow(10, c.exp))

(***************************************************************************)
(* src/lib/math/complex.ts                                                 *)
(***************************************************************************)
Complex(re, im) == [re |-> re, im |-> im]

COMPLEX_ZERO == Complex(0, 0)
COMPLEX_ONE == Complex(Scale, 0)

complexAdd(a, b) == Complex(a.re + b.re, a.im + b.im)

complexSubtract(a, b) == Complex(a.re - b.re, a.im - b.im)

complexMultiply(a, b) ==
  Complex(NumMul(a.re, b.re) - NumMul(a.im, b.im),
          NumMul(a.re, b.im) + NumMul(a.im, b.re))

\* the divisor's squared magnitude as complexDivide computes it
DivisorNorm(b) == NumMul(b.re, b.re) + NumMul(b.im, b.im)

\* a division by a divisor of squared magnitude 0 yields no finite number
NonFinite == [re |-> "NaN", im |-> "NaN"]

complexDivide(a, b) ==
  LET denom == DivisorNorm(b)
  IN  IF denom = 0 THEN NonFinite
      ELSE Complex(NumDiv(NumMul(a.re, b.re) + NumMul(a.im, b.im), denom),
                   NumDiv(NumMul(a.im, b.re) - NumMul(a.re, b.im), denom))

complexAbs(z) == MathSqrt(NumMul(z.re, z.re) + NumMul(z.im, z.im))

(***************************************************************************)
(* src/lib/math/polynomial.ts                                              *)
(***************************************************************************)
\* Math.pow(coeffsLength, degree + 1)
getTotalPolynomials(degree, coeffsLength) == Pow(coeffsLength, degree + 1)

\* the loop body with its two statements in the other order
PolyBodySwapped(acc, coeffs) ==
  LET temp == acc.temp \div Len(coeffs)
  IN  [poly |-> Append(acc.poly, coeffs[(temp % Len(coeffs)) + 1]),
       digits |-> Append(acc.digits, temp % Len(coeffs)),
       temp |-> temp]

\* polynomial.ts 34-35, the body of the loop of generatePolynomialByIndex, on
\* acc = [poly, temp] and the selectors `temp % coeffs.length` used so far
PolyBody(acc, coeffs) ==
  [poly |-> Append(acc.poly, coeffs[(acc.temp % Len(coeffs)) + 1]),
   digits |-> Append(acc.digits, acc.temp % Len(coeffs)),
   temp |-> acc.temp \div Len(coeffs)]

\* the loop condition with < for <=
PolyLoopContinuesStrict(j, degree) == j < degree

\* polynomial.ts 33: the loop condition
PolyLoopContinues(j, degree) == j <= degree

RECURSIVE PolyFrom(_, _, _, _)
\* the loop of generatePolynomialByIndex from iteration j on
PolyFrom(acc, j, degree, coeffs) ==
  IF ~PolyLoopContinues(j, degree) THEN acc
  ELSE PolyFrom(PolyBody(acc, coeffs), j + 1, degree, coeffs)

generatePolynomialByIndex(index, degree, coeffs) ==
  PolyFrom([poly |-> << >>, digits |-> << >>, temp |-> index], 0, degree, coeffs).poly

\* the selectors `temp % coeffs.length` generatePolynomialByIndex uses, in order
IndexDigits(index, degree, coeffs) ==
  PolyFrom([poly |-> << >>, digits |-> << >>, temp |-> index], 0, degree, coeffs).digits

(***************************************************************************)
(* src/lib/math/roots.ts                                                   *)
(***************************************************************************)
DEFAULT_TOLERANCE == [mant |-> 1, exp |-> 6]
MIN_DENOMINATOR == [mant |-> 1, exp |-> 15]
PERTURBATION_THRESHOLD == [mant |-> 1, exp |-> 10]
PERTURBATION == Complex(FromDecimal([mant |-> 1, exp |-> 6]), FromDecimal([mant |-> 1, exp |-> 6]))

RECURSIVE RadiusLoop(_, _, _, _)
\* the loop of computeInitialRadius from index i on
RadiusLoop(monicCoeffs, degree, i, maxCoeffAbs) ==
  IF i >= degree THEN maxCoeffAbs
  ELSE LET abs == complexAbs(monicCoeffs[i + 1])
       IN  RadiusLoop(monicCoeffs, degree, i + 1,
                      IF abs > maxCoeffAbs THEN abs ELSE maxCoeffAbs)

computeInitialRadius(monicCoeffs, degree) ==
  Scale + RadiusLoop(monicCoeffs, degree, 0, 0)

\* sqrt(3)/2, the sine of a third of a turn
Sqrt3Half == RoundDiv(MathSqrt(3 * Scale), 2)

\* Math.cos(2 * Math.PI * i / degree); degrees 1, 2, 3, 4, 6 and 12 only
MathCosTurn(i, degree) ==
  LET t == (12 * i) \div degree
  IN  CASE t = 0 -> Scale
        [] t \in {3, 9} -> 0
        [] t \in {4, 8} -> 0 - RoundDiv(Scale, 2)
        [] t = 6 -> 0 - Scale

\* Math.sin(2 * Math.PI * i / degree); degrees 1, 2, 3, 4, 6 and 12 only
MathSinTurn(i, degree) ==
  LET t == (12 * i) \div degree
  IN  CASE t \in {0, 6} -> 0
        [] t = 3 -> Scale
        [] t = 4 -> Sqrt3Half
        [] t = 8 -> 0 - Sqrt3Half
        [] t = 9 -> 0 - Scale

initializeRootsOnCircle(degree, radius) ==
  [k \in 1..degree |->
     Complex(NumMul(radius, MathCosTurn(k - 1, degree)),
             NumMul(radius, MathSinTurn(k - 1, degree)))]

RECURSIVE HornerLoop(_, _, _, _)
\* the loop of evaluateHorner from index k down
HornerLoop(coeffs, z, k, p) ==
  IF k < 0 THEN p
  ELSE HornerLoop(coeffs, z, k - 1, complexAdd(complexMultiply(p, z), coeffs[k + 1]))

evaluateHorner(coeffs, z, degree) ==
  HornerLoop(coeffs, z, degree - 1, coeffs[degree + 1])

RECURSIVE DenominatorLoop(_, _, _, _, _)
\* the loop of computeDenominator from index j on
DenominatorLoop(roots, i, degree, j, denom) ==
  IF j >= degree THEN denom
  ELSE IF j = i THEN DenominatorLoop(roots, i, degree, j + 1, denom)
  ELSE LET diff == complexSubtract(roots[i + 1], roots[j + 1])
           used == IF LessThan(complexAbs(diff), PERTURBATION_THRESHOLD)
                   THEN complexAdd(diff, PERTURBATION)
                   ELSE diff
       IN  DenominatorLoop(roots, i, degree, j + 1, complexMultiply(denom, used))

RECURSIVE DenominatorLoopAllJ(_, _, _, _, _)
\* computeDenominator without the `j === i` test
DenominatorLoopAllJ(roots, i, degree, j, denom) ==
  IF j >= degree THEN denom
  ELSE LET diff == complexSubtract(roots[i + 1], roots[j + 1])
           used == IF LessThan(complexAbs(diff), PERTURBATION_THRESHOLD)
                   THEN complexAdd(diff, PERTURBATION)
                   ELSE diff
       IN  DenominatorLoopAllJ(roots, i, degree, j + 1, complexMultiply(denom, used))

computeDenominatorAllJ(roots, i, degree) ==
  DenominatorLoopAllJ(roots, i, degree, 0, COMPLEX_ONE)

computeDenominator(roots, i, degree) ==
  DenominatorLoop(roots, i, degree, 0, COMPLEX_ONE)

\* the test of roots.ts 124 left out
DenominatorNeverTooSmall(denom) == FALSE

\* roots.ts 124: the denominator is too small to divide by
DenominatorTooSmall(denom) == LessThan(complexAbs(denom), MIN_DENOMINATOR)

\* the test of roots.ts 49 made on the components instead of the magnitude
LeadingIsZeroByComponents(leading) == leading.re = 0 /\ leading.im = 0

\* roots.ts 49: the leading coefficient has magnitude exactly 0
LeadingIsZero(leading) == complexAbs(leading) = 0

\* the test of roots.ts 139 left out
NeverBelowTolerance(maxChange, tolerance) == FALSE

\* roots.ts 139: the convergence test at the end of an iteration
BelowTolerance(maxChange, tolerance) == LessThan(maxChange, tolerance)

\* roots.ts 128-134: the corrected root is stored and maxChange updated
MoveRoot(roots, maxChange, i, newXi, denom) ==
  [roots |-> [roots EXCEPT ![i + 1] = newXi],
   maxChange |-> MathMax(complexAbs(complexSubtract(newXi, roots[i + 1])), maxChange),
   skipped |-> FALSE, divided |-> TRUE, denom |-> denom]

\* as ApplyCorrection, with a too small denominator perturbed and divided by
\* instead of skipped
ApplyCorrectionPerturbed(roots, maxChange, i, p, denom) ==
  LET used == IF DenominatorTooSmall(denom) THEN complexAdd(denom, PERTURBATION)
              ELSE denom
  IN  IF DivisorNorm(used) = 0
      THEN [roots |-> roots, maxChange |-> maxChange, skipped |-> FALSE,
            divided |-> TRUE, denom |-> used]
      ELSE MoveRoot(roots, maxChange, i,
                    complexSubtract(roots[i + 1], complexDivide(p, used)), used)

\* roots.ts 124-134, given p = P(xi) and the denominator
ApplyCorrection(roots, maxChange, i, p, denom) ==
  IF DenominatorTooSmall(denom)
  THEN [roots |-> roots, maxChange |-> maxChange, skipped |-> TRUE,
        divided |-> FALSE, denom |-> denom]
  ELSE IF DivisorNorm(denom) = 0
  THEN [roots |-> roots, maxChange |-> maxChange, skipped |-> FALSE,
        divided |-> TRUE, denom |-> denom]
  ELSE MoveRoot(roots, maxChange, i,
                complexSubtract(roots[i + 1], complexDivide(p, denom)), denom)

\* One pass of the body of the loop over i (roots.ts 114-135) for root i, on
\* the root array and the running maxChange.  divided: complexDivide was
\* called, with divisor denom.
RootUpdate(roots, maxChange, monicCoeffs, i, degree) ==
  LET p == evaluateHorner(monicCoeffs, roots[i + 1], degree)
      denom == computeDenominator(roots, i, degree)
  IN  ApplyCorrection(roots, maxChange, i, p, denom)

\* what the loop over i carries from one root to the next
AfterUpdate(u) ==
  [roots |-> u.roots, maxChange |-> u.maxChange,
   nonFinite |-> u.divided /\ DivisorNorm(u.denom) = 0]

RECURSIVE InnerLoop(_, _, _, _)
\* the loop over i from root i on; acc = [roots, maxChange, nonFinite]
InnerLoop(acc, monicCoeffs, i, degree) ==
  IF i >= degree \/ acc.nonFinite THEN acc
  ELSE LET u == RootUpdate(acc.roots, acc.maxChange, monicCoeffs, i, degree)
       IN  InnerLoop(AfterUpdate(u), monicCoeffs, i + 1, degree)

\* roots.ts 137-142: the end of an iteration whose loop over i left pass
EndOfIteration(st, pass, tolerance) ==
  [roots |-> pass.roots,
   finalIter |-> st.finalIter + 1,
   converged |-> ~pass.nonFinite /\ BelowTolerance(pass.maxChange, tolerance),
   nonFinite |-> pass.nonFinite]

\* One iteration of the loop over iter (roots.ts 111-143), on
\* st = [roots, finalIter, converged, nonFinite]; once the function has
\* returned (converged or non-finite) nothing more happens
IterationStep(st, fixed) ==
  IF st.converged \/ st.nonFinite
  THEN st
  ELSE LET pass == InnerLoop([roots |-> st.roots, maxChange |-> 0, nonFinite |-> FALSE],
                             fixed.monicCoeffs, 0, fixed.degree)
       IN  EndOfIteration(st, pass, fixed.tolerance)

RECURSIVE OuterLoop(_, _, _)
\* count successive iterations from st: the first half of them, then the rest
OuterLoop(st, count, fixed) ==
  IF count <= 0 \/ st.converged \/ st.nonFinite
  THEN st
  ELSE IF count = 1
  THEN IterationStep(st, fixed)
  ELSE LET half == OuterLoop(st, count \div 2, fixed)
       IN  OuterLoop(half, count - (count \div 2), fixed)

\* roots.ts 139-145: the value returned
IterationResult(st) ==
  [roots |-> st.roots, converged |-> st.converged, iterations |-> st.finalIter,
   nonFinite |-> st.nonFinite]

iterateUntilConvergence(roots, monicCoeffs, degree, maxIter, tolerance) ==
  LET st == OuterLoop([roots |-> roots, finalIter |-> 0, converged |-> FALSE,
                       nonFinite |-> FALSE],
                      maxIter,
                      [monicCoeffs |-> monicCoeffs, degree |-> degree,
                       tolerance |-> tolerance])
  IN  IterationResult(st)

\* roots.ts 57-65: normalization and the initial guesses
SolverStart(monicCoeffs, degree) ==
  [kind |-> "iterate",
   roots |-> initializeRootsOnCircle(degree, computeInitialRadius(monicCoeffs, degree)),
   monicCoeffs |-> monicCoeffs, degree |-> degree]

\* findRootsDurandKerner up to the start of the iterations (roots.ts 41-65):
\* what it returns at once, or the monic coefficients and the initial guesses
SolverSetup(coeffs) ==
  LET degree == Len(coeffs) - 1
  IN  IF degree <= 0
      THEN [kind |-> "return", roots |-> << >>, monicCoeffs |-> << >>, degree |-> degree]
      ELSE IF LeadingIsZero(coeffs[degree + 1])
      THEN [kind |-> "return", roots |-> [k \in 1..degree |-> COMPLEX_ZERO],
            monicCoeffs |-> << >>, degree |-> degree]
      ELSE IF DivisorNorm(coeffs[degree + 1]) = 0
      THEN [kind |-> "nonFinite", roots |-> << >>, monicCoeffs |-> << >>, degree |-> degree]
      ELSE LET monicCoeffs == [k \in 1..(degree + 1) |->
                                 complexDivide(coeffs[k], coeffs[degree + 1])]
           IN  SolverStart(monicCoeffs, degree)

\* roots.ts 43, 50-54, 68: what is returned for each outcome of the set-up
SolverFinish(setup, maxIter) ==
  CASE setup.kind = "return" ->
         [roots |-> setup.roots, converged |-> TRUE, iterations |-> 0, nonFinite |-> FALSE]
    [] setup.kind = "nonFinite" ->
         [roots |-> << >>, converged |-> FALSE, iterations |-> 0, nonFinite |-> TRUE]
    [] setup.kind = "iterate" ->
         iterateUntilConvergence(setup.roots, setup.monicCoeffs, setup.degree,
                                 maxIter, DEFAULT_TOLERANCE)

findRootsDurandKerner(coeffs, maxIter) ==
  LET setup == SolverSetup(coeffs)
  IN  SolverFinish(setup, maxIter)

(***************************************************************************)
(* Inputs                                                                  *)
(***************************************************************************)
\* 1/Scale: the smallest non-zero number; its square rounds to zero
Tiny == Complex(1, 0)
Half == Complex(RoundDiv(Scale, 2), 0)
MinusOne == Complex(0 - Scale, 0)
Two == Complex(2 * Scale, 0)
ImagOne == Complex(0, Scale)

\* the coefficient values a stand-alone solve is given
CoeffValues == {COMPLEX_ZERO, Tiny, Half, COMPLEX_ONE, MinusOne, Two, ImagOne}

\* all sequences over S of length lo..hi
SeqsOf(S, lo, hi) == UNION {[1..n -> S] : n \in lo..hi}

\* the palette entries a stand-alone expansion is given
PaletteValues == {COMPLEX_ONE, MinusOne, ImagOne}

\* Number.POSITIVE_INFINITY, the "no budget" value of maxRoots: larger than
\* every count of the model; it is only ever compared
Infinity == 2147483647

\* the props the canvas is given: the degree slider passing through 0 and
\* the palette through the empty one are among them
DriverDegrees == {0, 1, 2}

DriverPalettes == {<<Half, Two>>, <<COMPLEX_ONE, MinusOne>>, << >>}

\* 3 and 5 give degree 2 with two coefficients the same number of units and
\* different strides; 6 gives it three polynomials, so that a unit of two
\* slots is followed by a last unit of one
MaxRootsValues == {3, 5, 6, Infinity}

\* offsetX, offsetY and zoom are numbers: no pan, zoom 1 and zoom 4
Views == {[offsetX |-> 0, offsetY |-> 0, zoom |-> Scale],
          [offsetX |-> 0, offsetY |-> 0, zoom |-> 4 * Scale]}

\* window.innerWidth * dpr by window.innerHeight * dpr, in pixels: a small
\* landscape window, and a window of exactly the size canvasSize starts with
CanvasSizes == {[width |-> 12, height |-> 6], [width |-> 1200, height |-> 1200]}

\* the strip position the pointer is moved to: that of a polynomial whose
\* solve does not converge, between two that do
HoverIndices == {4}

\* the props of the hover scenario: the 9 polynomials of degree 1 over three
\* coefficients, one more than an overlay unit evaluates
HoverProps == [degree |-> 1, coefficients |-> <<COMPLEX_ONE, MinusOne, ImagOne>>]

\* the strip positions of the hover scenario: near the first polynomial, in
\* the middle and the last one
OverlayHoverIndices == {1, 4, 8}

\* the polynomialNeighborRange of the hover scenario: the hovered polynomial
\* alone, its neighbours, and a range wider than the strip on both sides
OverlayRanges == {0, NeighborRange, 5}

(***************************************************************************)
(* src/components/FractalCanvas.tsx: what a run computes                   *)
(***************************************************************************)
VIEWPORT_SIZE == 6

margin == 2

OVERLAY_BATCH_SIZE == 8

\* useState<number | null>(null): no strip position is hovered
null == -1

\* a ref's animationId before any requestAnimationFrame
NoHandle == [kind |-> "none", run |-> 0, seq |-> 0]

\* a quotient the program only displays or reports, kept as a fraction
Ratio(num, den) == [num |-> num, den |-> den]

adaptiveMaxIterations(degree) == MathMin(200, MathMax(40, degree * 20))

\* FractalCanvas.tsx 1585-1617 (and again 1498-1503): how many polynomials a
\* run visits and how far apart.  skipRatio > 1 exactly when
\* theoreticalTotalRoots > maxRoots, and Math.ceil of the quotient of two
\* positive integers is CeilDiv.
RenderPlanUnguarded(degree, coefficients, maxRoots, batchSize) ==
  LET totalPolynomials == getTotalPolynomials(degree, Len(coefficients))
      theoreticalTotalRoots == totalPolynomials * degree
      \* skipRatio = theoreticalTotalRoots / maxRoots whatever the budget: a
      \* quotient by Infinity is 0, and Math.ceil(0) is 0
      skipInterval == IF maxRoots = Infinity THEN 0
                      ELSE CeilDiv(theoreticalTotalRoots, maxRoots)
      polynomialsToRender == IF theoreticalTotalRoots > maxRoots
                             THEN CeilDiv(totalPolynomials, skipInterval)
                             ELSE totalPolynomials
  IN  [totalPolynomials |-> totalPolynomials,
       theoreticalTotalRoots |-> theoreticalTotalRoots,
       skipInterval |-> skipInterval,
       polynomialsToRender |-> polynomialsToRender,
       framesToRender |-> CeilDiv(polynomialsToRender, batchSize)]

\* as RenderPlan, with a run never planned for fewer than one polynomial
RenderPlanAtLeastOne(degree, coefficients, maxRoots, batchSize) ==
  LET totalPolynomials == getTotalPolynomials(degree, Len(coefficients))
      theoreticalTotalRoots == totalPolynomials * degree
      overBudget == theoreticalTotalRoots > maxRoots
      skipInterval == IF overBudget THEN CeilDiv(theoreticalTotalRoots, maxRoots) ELSE 1
      polynomialsToRender == MathMax(1, IF overBudget
                                        THEN CeilDiv(totalPolynomials, skipInterval)
                                        ELSE totalPolynomials)
  IN  [totalPolynomials |-> totalPolynomials,
       theoreticalTotalRoots |-> theoreticalTotalRoots,
       skipInterval |-> skipInterval,
       polynomialsToRender |-> polynomialsToRender,
       framesToRender |-> CeilDiv(polynomialsToRender, batchSize)]

\* as RenderPlan, with the polynomials of a sampled run counted from the
\* budget, ceil(maxRoots / degree), instead of from the stride
RenderPlanByBudget(degree, coefficients, maxRoots, batchSize) ==
  LET totalPolynomials == getTotalPolynomials(degree, Len(coefficients))
      theoreticalTotalRoots == totalPolynomials * degree
      overBudget == theoreticalTotalRoots > maxRoots
      skipInterval == IF overBudget THEN CeilDiv(theoreticalTotalRoots, maxRoots) ELSE 1
      polynomialsToRender == IF overBudget THEN CeilDiv(maxRoots, degree)
                             ELSE totalPolynomials
  IN  [totalPolynomials |-> totalPolynomials,
       theoreticalTotalRoots |-> theoreticalTotalRoots,
       skipInterval |-> skipInterval,
       polynomialsToRender |-> polynomialsToRender,
       framesToRender |-> CeilDiv(polynomialsToRender, batchSize)]

RenderPlan(degree, coefficients, maxRoots, batchSize) ==
  LET totalPolynomials == getTotalPolynomials(degree, Len(coefficients))
      theoreticalTotalRoots == totalPolynomials * degree
      overBudget == theoreticalTotalRoots > maxRoots
      skipInterval == IF overBudget THEN CeilDiv(theoreticalTotalRoots, maxRoots) ELSE 1
      polynomialsToRender == IF overBudget THEN CeilDiv(totalPolynomials, skipInterval)
                             ELSE totalPolynomials
  IN  [totalPolynomials |-> totalPolynomials,
       theoreticalTotalRoots |-> theoreticalTotalRoots,
       skipInterval |-> skipInterval,
       polynomialsToRender |-> polynomialsToRender,
       framesToRender |-> CeilDiv(polynomialsToRender, batchSize)]

\* every solve a run or an overlay can ask for, computed once
SolveKeys ==
  {k \in DriverDegrees \X DriverPalettes \X (0..(Pow(MaxPaletteLen, MaxDegree + 1) - 1)) :
     k[3] < getTotalPolynomials(k[1], Len(k[2]))}
  \cup {<<HoverProps.degree, HoverProps.coefficients, index>> : index \in
          0..(getTotalPolynomials(HoverProps.degree, Len(HoverProps.coefficients)) - 1)}

\* FractalCanvas.tsx 1682-1683: poly, then result
Solved(poly, maxIterations) ==
  [poly |-> poly, maxIterations |-> maxIterations,
   result |-> findRootsDurandKerner(poly, maxIterations)]

SolveTable ==
  {[degree |-> k[1], coefficients |-> k[2], polynomialIndex |-> k[3],
    solved |-> Solved(generatePolynomialByIndex(k[3], k[1], k[2]),
                      adaptiveMaxIterations(k[1]))] : k \in SolveKeys}

\* the entry of the table for one polynomial
Lookup(polynomialIndex, degree, coefficients) ==
  (CHOOSE e \in SolveTable : /\ e.degree = degree
                             /\ e.coefficients = coefficients
                             /\ e.polynomialIndex = polynomialIndex).solved

\* FractalCanvas.tsx 1682 and 1918: generatePolynomialByIndex(polynomialIndex,
\* degree, coefficients)
Polynomial(polynomialIndex, degree, coefficients) ==
  Lookup(polynomialIndex, degree, coefficients).poly

\* FractalCanvas.tsx 1682-1683 and 1918-1919
Solve(polynomialIndex, degree, coefficients) ==
  Lookup(polynomialIndex, degree, coefficients).result

\* FractalCanvas.tsx 2736-2741 (the revision that renders in one pass): the
\* coefficients of polynomial i, from power j upwards
RECURSIVE PolynomialFrom(_, _, _, _)

PolynomialFrom(temp, j, degree, coeffs) ==
  IF j <= degree
  THEN <<coeffs[(temp % Len(coeffs)) + 1]>>
         \o PolynomialFrom(temp \div Len(coeffs), j + 1, degree, coeffs)
  ELSE << >>

\* FractalCanvas.tsx 2730-2746: every polynomial of the space, in the order of
\* the one-pass enumeration (polynomials[i] is element i + 1)
generatePolynomials(degree, coeffs) ==
  [i \in 1..Pow(Len(coeffs), degree + 1) |-> PolynomialFrom(i - 1, 0, degree, coeffs)]

(***************************************************************************)
(* The page's coefficient transforms (src/unnamed/part_004)              *)
(***************************************************************************)
\* part_004 164-171; index counts from 0
shouldTransform(index, transformTarget, lastSelectedIndex) ==
  CASE transformTarget = "all" -> TRUE
    [] transformTarget = "even" -> index % 2 = 0
    [] transformTarget = "odd" -> index % 2 = 1
    [] transformTarget = "selected" -> index = lastSelectedIndex

\* part_004 174-180
getTransformIndices(length, transformTarget, lastSelectedIndex) ==
  {i \in 0..(length - 1) : shouldTransform(i, transformTarget, lastSelectedIndex)}

\* indices.reduce((sum, i) => sum + base[i].re, 0), and the same for im
RECURSIVE SumAt(_, _)

SumAt(base, indices) ==
  IF indices = {} THEN COMPLEX_ZERO
  ELSE LET i == CHOOSE i \in indices : TRUE
       IN  complexAdd(base[i + 1], SumAt(base, indices \ {i}))

\* part_004 190-191, 211-212: the centre of mass of the affected coefficients
CenterOfMass(base, indices) ==
  Complex(RoundDiv(SumAt(base, indices).re, Cardinality(indices)),
          RoundDiv(SumAt(base, indices).im, Cardinality(indices)))

\* Math.cos((angleDegrees * Math.PI) / 180) and Math.sin of the same, for
\* multiples of 30 degrees
MathCosDegrees(angleDegrees) == MathCosTurn(angleDegrees % 360, 360)

MathSinDegrees(angleDegrees) == MathSinTurn(angleDegrees % 360, 360)

\* as TransformBase, with the palette of the moment as the base
TransformBaseCurrent(transformBaseCoeffsRef, coefficients) == coefficients

\* part_004 185, 206, 232: transformBaseCoeffsRef.current || coefficients
TransformBase(transformBaseCoeffsRef, coefficients) ==
  IF transformBaseCoeffsRef.set THEN transformBaseCoeffsRef.current ELSE coefficients

\* part_004 194-200: what handleScaleCoefficients passes to setCoefficients
ScaledCoefficients(base, scaleFactor, transformTarget, lastSelectedIndex) ==
  LET center == CenterOfMass(base, getTransformIndices(Len(base), transformTarget,
                                                       lastSelectedIndex))
  IN  [k \in 1..Len(base) |->
         IF ~shouldTransform(k - 1, transformTarget, lastSelectedIndex) THEN base[k]
         ELSE Complex(center.re + NumMul(base[k].re - center.re, scaleFactor),
                      center.im + NumMul(base[k].im - center.im, scaleFactor))]

\* part_004 213-227: what handleRotateCoefficients passes to setCoefficients
RotatedCoefficients(base, angleDegrees, transformTarget, lastSelectedIndex) ==
  LET center == CenterOfMass(base, getTransformIndices(Len(base), transformTarget,
                                                       lastSelectedIndex))
      cos == MathCosDegrees(angleDegrees)
      sin == MathSinDegrees(angleDegrees)
  IN  [k \in 1..Len(base) |->
         IF ~shouldTransform(k - 1, transformTarget, lastSelectedIndex) THEN base[k]
         ELSE LET dx == base[k].re - center.re
                  dy == base[k].im - center.im
              IN  Complex(center.re + NumMul(dx, cos) - NumMul(dy, sin),
                          center.im + NumMul(dx, sin) + NumMul(dy, cos))]

\* part_004 233-239: what handleTranslateCoefficients passes to setCoefficients
TranslatedCoefficients(base, dx, dy, transformTarget, lastSelectedIndex) ==
  [k \in 1..Len(base) |->
     IF ~shouldTransform(k - 1, transformTarget, lastSelectedIndex) THEN base[k]
     ELSE Complex(base[k].re + dx, base[k].im + dy)]

\* the palette after a call of one of the three handlers with the base
\* palette base: scale and rotate return before setCoefficients, leaving the
\* palette as it is, when the target selects no coefficient
Transformed(call, base, coefficients, transformTarget, lastSelectedIndex) ==
  CASE call.kind = "scale" ->
         IF getTransformIndices(Len(base), transformTarget, lastSelectedIndex) = {}
         THEN coefficients
         ELSE ScaledCoefficients(base, call.a, transformTarget, lastSelectedIndex)
    [] call.kind = "rotate" ->
         IF getTransformIndices(Len(base), transformTarget, lastSelectedIndex) = {}
         THEN coefficients
         ELSE RotatedCoefficients(base, call.a, transformTarget, lastSelectedIndex)
    [] call.kind = "translate" ->
         TranslatedCoefficients(base, call.a, call.b, transformTarget, lastSelectedIndex)

(***************************************************************************)
(* The batch size                                                          *)
(***************************************************************************)
\* Math.round of the quotient n / d of two integers, n >= 0 and d > 0
MathRound(n, d) == (2 * n + d) \div (2 * d)

\* Math.round(Math.log2(m)) for an integer m >= 1, as far as 15: the k with
\* 2^(k - 1/2) <= m < 2^(k + 1/2), i.e. 2^(2k-1) <= m^2 < 2^(2k+1); every
\* value above 15 is given as 15 (the caller clamps to 14)
RoundedLog2(m) ==
  IF m >= Pow(2, 15) THEN 15
  ELSE IF m * m >= Pow(2, 29) THEN 15
  ELSE CHOOSE k \in 0..14 : (k = 0 \/ Pow(2, 2 * k - 1) <= m * m) /\ m * m < Pow(2, 2 * k + 1)

\* FractalCanvas.tsx 1321: (deg * deg) * Math.max(coeffCount, 1)
Complexity(deg, coeffCount) == (deg * deg) * MathMax(coeffCount, 1)

\* FractalCanvas.tsx 1323-1325: Math.round(Math.log2(Math.round((128 * 1900) /
\* complexity))).  A complexity of 0 makes the quotient and so the power
\* Infinity; a base batch of 0 makes the power -Infinity.
BatchPower(complexity) ==
  IF complexity = 0 THEN Infinity
  ELSE IF MathRound(128 * 1900, complexity) = 0 THEN 0 - Infinity
  ELSE RoundedLog2(MathRound(128 * 1900, complexity))

\* as ClampPower, with the upper limit one too high
ClampPowerWide(power) == MathMax(7, MathMin(15, power))

\* FractalCanvas.tsx 1326: Math.max(7, Math.min(14, power))
ClampPower(power) == MathMax(7, MathMin(14, power))

\* FractalCanvas.tsx 1314-1328
getBatchSize(deg, coeffCount) ==
  Pow(2, ClampPower(BatchPower(Complexity(deg, coeffCount))))

(***************************************************************************)
(* The sampling engine: the index of a slot under the two filter modes     *)
(***************************************************************************)
\* "no polynomial at this slot"
Sentinel == 0 - 1

\* as nextIndexByA0, with the palette length left out of the step
nextIndexByA0Unscaled(slot, stride, target, totalCount, paletteLength) ==
  LET index == target + slot * stride
  IN  IF index >= totalCount THEN Sentinel ELSE index

\* filter by the constant term: index = target + slot * stride * paletteLength,
\* the sentinel once index >= totalCount
nextIndexByA0(slot, stride, target, totalCount, paletteLength) ==
  LET index == target + slot * stride * paletteLength
  IN  IF index >= totalCount THEN Sentinel ELSE index

\* as nextIndexByAn, with the end of the block taken one entry late
nextIndexByAnLate(slot, stride, target, paletteLength, degree) ==
  LET blockSize == Pow(paletteLength, degree)
      blockStart == target * blockSize
  IN  IF slot * stride > blockSize THEN Sentinel ELSE blockStart + slot * stride

\* filter by the leading term: blockStart = target * paletteLength^degree,
\* blockStart + slot * stride until the paletteLength^degree entries of the
\* block are exhausted, then the sentinel
nextIndexByAn(slot, stride, target, paletteLength, degree) ==
  LET blockSize == Pow(paletteLength, degree)
      blockStart == target * blockSize
  IN  IF slot * stride >= blockSize THEN Sentinel ELSE blockStart + slot * stride

\* ControlPanel.tsx 328-334: the offset slider runs over 0..100 and the offset of
\* the configuration is its value / 100; the model keeps the slider's value
OffsetUnit == 100

\* uniform mode: floor(offset * (stride - 1)) + slot * stride
nextIndexUniform(slot, stride, offset) ==
  (offset * (stride - 1)) \div OffsetUnit + slot * stride

\* nextIndex for the uniform mode and the two filter modes; samplingConfig is
\* [mode, filterCoeffIndex, offset].  The budget is an argument these modes do
\* not read.  Under an unbounded budget the engine is bypassed: the driver
\* uses the slot as the index and does not ask.
nextIndex(slot, stride, samplingConfig, totalCount, paletteLength, degree, budget) ==
  IF samplingConfig.mode = "uniform"
  THEN nextIndexUniform(slot, stride, samplingConfig.offset)
  ELSE IF samplingConfig.mode = "by_a0"
  THEN nextIndexByA0(slot, stride, samplingConfig.filterCoeffIndex, totalCount,
                     paletteLength)
  ELSE nextIndexByAn(slot, stride, samplingConfig.filterCoeffIndex, paletteLength, degree)

\* canvas coordinates are kept as multiples of 1/CanvasUnit pixel, which makes
\* toCanvasX and toCanvasY exact
CanvasUnit == 2 * VIEWPORT_SIZE * Scale * Scale

\* FractalCanvas.tsx 1652-1655
toCanvasX(re, cl) ==
  (CanvasUnit \div 2) * cl.canvas.width
    + 2 * (re - cl.offsetX) * MathMin(cl.canvas.width, cl.canvas.height) * cl.zoom

toCanvasY(im, cl) ==
  (CanvasUnit \div 2) * cl.canvas.height
    - 2 * (im - cl.offsetY) * MathMin(cl.canvas.width, cl.canvas.height) * cl.zoom

\* FractalCanvas.tsx 1658-1662, 1695: a non-finite coordinate fails every
\* comparison, so such a root is not culled
Culled(root, nonFinite, cl) ==
  /\ ~nonFinite
  /\ LET x == toCanvasX(root.re, cl)
         y == toCanvasY(root.im, cl)
     IN  \/ x < (0 - margin) * CanvasUnit
         \/ x > (cl.canvas.width + margin) * CanvasUnit
         \/ y < (0 - margin) * CanvasUnit
         \/ y > (cl.canvas.height + margin) * CanvasUnit

\* FractalCanvas.tsx 1677
SlotIndexNext(currentPolynomialIndex, skipInterval) ==
  (currentPolynomialIndex + 1) * skipInterval

SlotIndex(currentPolynomialIndex, skipInterval) == currentPolynomialIndex * skipInterval

\* FractalCanvas.tsx 1685 and 1921
EmitAlways(result) == TRUE

ShouldEmit(result) == result.converged

\* FractalCanvas.tsx 1730
NoSlotRemains(currentPolynomialIndex, polynomialsToRender) == FALSE

MoreSlotsRemain(currentPolynomialIndex, polynomialsToRender) ==
  currentPolynomialIndex < polynomialsToRender

\* FractalCanvas.tsx 1555-1562: the pending unit of the previous run is
\* cancelled and the ref is replaced by one that carries the next id
SupersedeNothing(ref, pending) == [renderingRef |-> ref, frames |-> pending]

\* as SupersedePrevious, with the id of the previous run kept
SupersedeKeepId(ref, pending) ==
  [renderingRef |-> [id |-> ref.id, animationId |-> NoHandle],
   frames |-> {f \in pending : f.handle # ref.animationId}]

SupersedePrevious(ref, pending) ==
  [renderingRef |-> [id |-> ref.id + 1, animationId |-> NoHandle],
   frames |-> {f \in pending : f.handle # ref.animationId}]

\* FractalCanvas.tsx 1685-1718: what one evaluated slot leaves behind, given
\* the result of its solve.  acc carries the closure cl with its counters,
\* processedInThisFrame, the accumulation buffer and the record of evaluated
\* slots
EvaluatedSlot(acc, polynomialIndex, result) ==
  LET cl == acc.cl
      drawn == IF ShouldEmit(result)
               THEN {rootIndex \in 1..Len(result.roots) :
                       ~Culled(result.roots[rootIndex], result.nonFinite, cl)}
               ELSE {}
  IN  [cl |-> [cl EXCEPT
                 !.totalConverged = IF result.converged THEN @ + 1 ELSE @,
                 !.totalIterations = IF result.converged THEN @ + result.iterations ELSE @,
                 !.processedRoots = @ + Cardinality(drawn),
                 !.currentPolynomialIndex = @ + 1],
       processedInThisFrame |-> acc.processedInThisFrame + 1,
       buffer |-> acc.buffer \cup
                    {[run |-> cl.run, id |-> cl.currentRenderId,
                      index |-> polynomialIndex, rootIndex |-> rootIndex,
                      converged |-> result.converged] : rootIndex \in drawn},
       log |-> Append(acc.log,
                      [run |-> cl.run, id |-> cl.currentRenderId,
                       slot |-> cl.currentPolynomialIndex,
                       index |-> polynomialIndex,
                       degree |-> cl.degree,
                       coefficients |-> cl.coefficients,
                       skipInterval |-> cl.skipInterval,
                       BATCH_SIZE |-> cl.BATCH_SIZE,
                       unit |-> cl.currentFrame,
                       poly |-> Polynomial(polynomialIndex, cl.degree, cl.coefficients),
                       maxIterations |->
                         Lookup(polynomialIndex, cl.degree, cl.coefficients).maxIterations,
                       converged |-> result.converged,
                       iterations |-> result.iterations])]

\* as FrameLoop, with the loop left one slot late
RECURSIVE FrameLoopInclusive(_)

FrameLoopInclusive(acc) ==
  IF ~(acc.processedInThisFrame <= acc.cl.BATCH_SIZE
        /\ acc.cl.currentPolynomialIndex < acc.cl.polynomialsToRender)
  THEN acc
  ELSE IF SlotIndex(acc.cl.currentPolynomialIndex, acc.cl.skipInterval)
            >= acc.cl.totalPolynomials
  THEN acc
  ELSE TheOne({FrameLoopInclusive(next) : next \in
         {EvaluatedSlot(acc, SlotIndex(acc.cl.currentPolynomialIndex, acc.cl.skipInterval),
                        result) : result \in
            {Solve(SlotIndex(acc.cl.currentPolynomialIndex, acc.cl.skipInterval),
                   acc.cl.degree, acc.cl.coefficients)}}})

\* FractalCanvas.tsx 1673-1719: the while loop of one unit
RECURSIVE FrameLoop(_)

FrameLoop(acc) ==
  IF ~(acc.processedInThisFrame < acc.cl.BATCH_SIZE
        /\ acc.cl.currentPolynomialIndex < acc.cl.polynomialsToRender)
  THEN acc
  ELSE IF SlotIndex(acc.cl.currentPolynomialIndex, acc.cl.skipInterval)
            >= acc.cl.totalPolynomials
  THEN acc
  ELSE TheOne({FrameLoop(next) : next \in
         {EvaluatedSlot(acc, SlotIndex(acc.cl.currentPolynomialIndex, acc.cl.skipInterval),
                        result) : result \in
            {Solve(SlotIndex(acc.cl.currentPolynomialIndex, acc.cl.skipInterval),
                   acc.cl.degree, acc.cl.coefficients)}}})

\* FractalCanvas.tsx 1742-1750
FinalStats(cl) ==
  [run |-> cl.run, id |-> cl.currentRenderId,
   totalRoots |-> cl.processedRoots,
   convergedRoots |-> cl.totalConverged,
   convergenceRate |-> IF cl.totalPolynomials > 0
                       THEN Ratio(cl.totalConverged * 100, cl.totalPolynomials)
                       ELSE Ratio(0, 1),
   avgIterations |-> IF cl.totalPolynomials > 0
                     THEN Ratio(cl.totalIterations, cl.totalPolynomials)
                     ELSE Ratio(0, 1)]

\* FractalCanvas.tsx 1721-1753: the end of a unit whose loop left acc
FrameEnd(w, acc) ==
  LET after == acc.cl
      handle == [kind |-> "main", run |-> after.run, seq |-> after.currentFrame]
      counted == [w EXCEPT
                    !.buffer = acc.buffer,
                    !.log = acc.log,
                    !.rootCount = after.processedRoots,
                    !.renderProgress = Ratio(after.currentFrame * 100,
                                             after.framesToRender),
                    !.currentRenderFrame = after.currentFrame,
                    !.lastUnit = [run |-> after.run, id |-> after.currentRenderId]]
  IN  IF MoreSlotsRemain(after.currentPolynomialIndex, after.polynomialsToRender)
      THEN [counted EXCEPT
              !.renderingRef.animationId = handle,
              !.frames = @ \cup {[handle |-> handle, closure |-> after]}]
      ELSE [counted EXCEPT
              !.renderProgress = Ratio(100, 1),
              !.isRendering = FALSE,
              !.reported = Append(@, FinalStats(after))]

\* FractalCanvas.tsx 1665-1754: one unit of closure cl, run on the state w of
\* the component
processFrame(cl, w) ==
  IF w.renderingRef.id # cl.currentRenderId
  THEN w
  ELSE TheOne({FrameEnd(w, acc) : acc \in
         {FrameLoop(entry) : entry \in
            {[cl |-> [cl EXCEPT !.currentFrame = @ + 1],
              processedInThisFrame |-> 0,
              buffer |-> w.buffer, log |-> w.log]}}})

\* FractalCanvas.tsx 1530-1541: the value stored in previousRenderParams.
\* transparency, colorBandWidth and blendMode are props the model holds fixed.
RenderParams(props, canvasSize, framesToRender) ==
  [framesToRender |-> framesToRender,
   degree |-> props.degree,
   coefficients |-> props.coefficients,
   canvasSize |-> canvasSize,
   offsetX |-> props.offsetX, offsetY |-> props.offsetY, zoom |-> props.zoom]

\* FractalCanvas.tsx 1287-1307: previousRenderParams before any run
InitialRenderParams ==
  [framesToRender |-> 0, degree |-> 0, coefficients |-> << >>,
   canvasSize |-> [width |-> 0, height |-> 0],
   offsetX |-> 0, offsetY |-> 0, zoom |-> Scale]

\* FractalCanvas.tsx 1550-1758.  The 2d contexts of the two canvases always
\* exist, so the return of line 1573 is never taken.
renderFractal(w, props, canvas, batchSize, offscreenCanvas) ==
  IF ~offscreenCanvas
  THEN w
  ELSE LET s == SupersedePrevious(w.renderingRef, w.frames)
           plan == RenderPlan(props.degree, props.coefficients, props.maxRoots, batchSize)
           cl == [run |-> w.started + 1,
                  currentRenderId |-> s.renderingRef.id,
                  degree |-> props.degree,
                  coefficients |-> props.coefficients,
                  offsetX |-> props.offsetX, offsetY |-> props.offsetY,
                  zoom |-> props.zoom,
                  canvas |-> canvas,
                  BATCH_SIZE |-> batchSize,
                  totalPolynomials |-> plan.totalPolynomials,
                  skipInterval |-> plan.skipInterval,
                  polynomialsToRender |-> plan.polynomialsToRender,
                  framesToRender |-> plan.framesToRender,
                  currentFrame |-> 0, totalConverged |-> 0, totalIterations |-> 0,
                  processedRoots |-> 0, currentPolynomialIndex |-> 0]
       IN  processFrame(cl,
             [w EXCEPT
                !.renderingRef = s.renderingRef,
                !.frames = s.frames,
                !.isRendering = TRUE,
                !.renderProgress = Ratio(0, 1),
                !.currentRenderFrame = 0,
                !.buffer = {},
                !.log = << >>,
                !.reported = << >>,
                !.started = @ + 1,
                !.runInfo = [run |-> w.started + 1,
                             preempted |-> s.frames # w.frames,
                             degree |-> props.degree,
                             coefficients |-> props.coefficients,
                             maxRoots |-> props.maxRoots,
                             BATCH_SIZE |-> batchSize,
                             params |-> RenderParams(props, canvas, plan.framesToRender),
                             skipInterval |-> plan.skipInterval,
                             polynomialsToRender |-> plan.polynomialsToRender,
                             totalPolynomials |-> plan.totalPolynomials,
                             changedInFlight |-> 0]])

\* FractalCanvas.tsx 1921-1933: what one evaluated polynomial leaves on the
\* overlay, given the result of its solve
OverlaySlot(acc, result) ==
  LET cl == acc.cl
      drawn == IF ShouldEmit(result) THEN 1..Len(result.roots) ELSE {}
  IN  [cl |-> [cl EXCEPT !.currentPolyIdx = @ + 1],
       processedInThisFrame |-> acc.processedInThisFrame + 1,
       roots |-> acc.roots \cup
                   {[id |-> cl.currentRenderId, index |-> cl.currentPolyIdx,
                     rootIndex |-> rootIndex,
                     converged |-> result.converged] : rootIndex \in drawn},
       log |-> Append(acc.log,
                      [id |-> cl.currentRenderId, index |-> cl.currentPolyIdx,
                       converged |-> result.converged])]

\* as OverlayLoop, with the unit left one polynomial late
RECURSIVE OverlayLoopInclusive(_)

OverlayLoopInclusive(acc) ==
  IF ~(acc.processedInThisFrame <= OVERLAY_BATCH_SIZE
        /\ acc.cl.currentPolyIdx <= acc.cl.endIndex)
  THEN acc
  ELSE TheOne({OverlayLoopInclusive(next) : next \in
         {OverlaySlot(acc, result) : result \in
            {Solve(acc.cl.currentPolyIdx, acc.cl.degree, acc.cl.coefficients)}}})

\* FractalCanvas.tsx 1917-1934: the while loop of one overlay unit
RECURSIVE OverlayLoop(_)

OverlayLoop(acc) ==
  IF ~(acc.processedInThisFrame < OVERLAY_BATCH_SIZE
        /\ acc.cl.currentPolyIdx <= acc.cl.endIndex)
  THEN acc
  ELSE TheOne({OverlayLoop(next) : next \in
         {OverlaySlot(acc, result) : result \in
            {Solve(acc.cl.currentPolyIdx, acc.cl.degree, acc.cl.coefficients)}}})

\* FractalCanvas.tsx 1936-1943: the end of an overlay unit whose loop left acc
OverlayFrameEnd(w, acc) ==
  LET after == acc.cl
      handle == [kind |-> "overlay", run |-> after.currentRenderId,
                 seq |-> after.currentPolyIdx]
      drawn == [w EXCEPT
                  !.overlay.roots = acc.roots,
                  !.overlayLog = acc.log,
                  !.overlayRenderProgress =
                     Ratio((after.currentPolyIdx - after.startIndex) * 100,
                           after.totalToRender)]
  IN  IF after.currentPolyIdx <= after.endIndex
      THEN [drawn EXCEPT
              !.overlayRenderingRef.animationId = handle,
              !.frames = @ \cup {[handle |-> handle, closure |-> after]}]
      ELSE drawn

\* FractalCanvas.tsx 1911-1944: one overlay unit of closure cl
processOverlayFrame(cl, w) ==
  IF w.overlayRenderingRef.id # cl.currentRenderId
  THEN w
  ELSE TheOne({OverlayFrameEnd(w, acc) : acc \in
         {OverlayLoop(entry) : entry \in
            {[cl |-> cl, processedInThisFrame |-> 0,
              roots |-> w.overlay.roots, log |-> w.overlayLog]}}})

\* FractalCanvas.tsx 1865-1948.  The overlay canvas and its 2d context always
\* exist once the component is mounted.
startOverlayRendering(w, polynomialIndex, props, canvas) ==
  LET id == w.overlayRenderingRef.id + 1
      cancelled == [w EXCEPT
                      !.overlayRenderingRef.id = id,
                      !.frames = {f \in @ : f.handle # w.overlayRenderingRef.animationId}]
      totalPolynomials == getTotalPolynomials(props.degree, Len(props.coefficients))
      startIndex == MathMax(0, polynomialIndex - props.polynomialNeighborRange)
      endIndex == MathMin(totalPolynomials - 1,
                          polynomialIndex + props.polynomialNeighborRange)
      cl == [currentRenderId |-> id,
             degree |-> props.degree, coefficients |-> props.coefficients,
             offsetX |-> props.offsetX, offsetY |-> props.offsetY, zoom |-> props.zoom,
             canvas |-> canvas,
             startIndex |-> startIndex, endIndex |-> endIndex,
             totalToRender |-> endIndex - startIndex + 1,
             currentPolyIdx |-> startIndex]
      handle == [kind |-> "overlay", run |-> id, seq |-> startIndex]
  IN  IF ~(canvas.width > canvas.height)
      THEN [cancelled EXCEPT !.overlay = [dimmed |-> FALSE, roots |-> {}]]
      ELSE [cancelled EXCEPT
              !.overlay = [dimmed |-> TRUE, roots |-> {}],
              !.overlayLog = << >>,
              !.overlayRenderingRef.animationId = handle,
              !.frames = @ \cup {[handle |-> handle, closure |-> cl]}]

\* FractalCanvas.tsx 1951-1965
stopOverlayRendering(w) ==
  [w EXCEPT
     !.overlayRenderingRef.id = @ + 1,
     !.frames = {f \in @ : f.handle # w.overlayRenderingRef.animationId},
     !.overlayRenderProgress = Ratio(0, 1),
     !.overlay = [dimmed |-> FALSE, roots |-> {}]]

\* FractalCanvas.tsx 1471-1484: the cleanup of the previous run of the effect,
\* then its body
OverlayEffect(w, hovered, props, canvas) ==
  LET cleaned == [w EXCEPT
                    !.frames = {f \in @ : f.handle # w.overlayRenderingRef.animationId}]
  IN  IF hovered # null
      THEN startOverlayRendering(cleaned, hovered, props, canvas)
      ELSE stopOverlayRendering(cleaned)

\* FractalCanvas.tsx 1513-1526
shouldRender(prev, cur) ==
  \/ prev.degree # cur.degree
  \/ Len(prev.coefficients) # Len(cur.coefficients)
  \/ \E i \in 1..Len(prev.coefficients) :
       \/ i > Len(cur.coefficients)
       \/ prev.coefficients[i].re # cur.coefficients[i].re
       \/ prev.coefficients[i].im # cur.coefficients[i].im
  \/ prev.canvasSize.width # cur.canvasSize.width
  \/ prev.canvasSize.height # cur.canvasSize.height
  \/ prev.offsetX # cur.offsetX
  \/ prev.offsetY # cur.offsetY
  \/ prev.zoom # cur.zoom
  \/ prev.framesToRender # cur.framesToRender

\* FractalCanvas.tsx 1494-1548: the effect; yields the component state and the
\* new previousRenderParams
RenderEffect(w, prev, props, canvasSize, batchSize, offscreenCanvas) ==
  LET plan == RenderPlan(props.degree, props.coefficients, props.maxRoots, batchSize)
      cur == RenderParams(props, canvasSize, plan.framesToRender)
  IN  IF shouldRender(prev, cur)
      THEN [previousRenderParams |-> cur,
            w |-> renderFractal(w, props, canvasSize, batchSize, offscreenCanvas)]
      ELSE [previousRenderParams |-> prev, w |-> w]

(***************************************************************************)
(* State                                                                   *)
(***************************************************************************)
VARIABLES
  encoder,     \* one call of generatePolynomialByIndex: its locals and position
  batcher,     \* one call of getBatchSize: its arguments and what it returned
  gesture,     \* the page's palette and transform state, and the latest handler call
  sampler,     \* one scan of nextIndex over the slots 0, 1, 2, ...: its arguments,
               \* the slot reached and what each slot returned
  solver,      \* one call of findRootsDurandKerner: its locals and position
  solverLog,   \* history of that call: the divisors handed to complexDivide, each
               \* finished iteration's maxChange, the roots when the current
               \* iteration began, the (iter, i) whose update was skipped
  props,                   \* degree, coefficients, maxRoots, offsetX, offsetY, zoom,
                           \* polynomialNeighborRange as last passed by the parent
                           \* (the other props are held fixed)
  BATCH_SIZE,              \* getBatchSize(degree, coefficients.length)
  canvasSize,              \* useState: width and height of both canvases
  offscreenCanvasRef,      \* TRUE once the accumulation canvas has been created
  hoveredPolynomialIndex,  \* useState: the hovered strip position, or null
  previousRenderParams,    \* useRef: the parameters of the last run requested
  renderingRef,            \* useRef: id and animationId of the main run
  overlayRenderingRef,     \* useRef: id and animationId of the overlay run
  frames,                  \* callbacks handed to requestAnimationFrame and neither
                           \* run nor cancelled yet, each with its closure
  buffer,                  \* the roots on the accumulation (offscreen) canvas
  overlay,                 \* the overlay canvas: dimmed or clear, and its roots
  isRendering,             \* useState
  rootCount,               \* useState
  renderProgress,          \* useState
  currentRenderFrame,      \* useState
  overlayRenderProgress,   \* useState
  reported,    \* history: the statistics handed to onConvergenceStats (each followed
               \* by onRenderComplete) since the latest run started
  log,         \* history: the slots evaluated since the latest run started
  overlayLog,  \* history: the polynomials evaluated since the latest overlay started
  lastUnit,    \* history: the run whose unit last wrote the counters
  started,     \* history: how many runs renderFractal has started
  runInfo      \* history: the plan of the latest run, whether starting it
               \* cancelled a pending unit, and how many of its units had run
               \* when degree, coefficients or maxRoots last changed under it

encoderVars == <<encoder>>

samplerVars == <<sampler>>

batcherVars == <<batcher>>

gestureVars == <<gesture>>

solverVars == <<solver, solverLog>>

\* what the parent and the browser set
inputVars == <<props, BATCH_SIZE, canvasSize, offscreenCanvasRef, hoveredPolynomialIndex>>

\* what renderFractal, the overlay and their units read and write
renderVars ==
  <<renderingRef, overlayRenderingRef, frames, buffer, overlay, isRendering, rootCount,
    renderProgress, currentRenderFrame, overlayRenderProgress, reported, log,
    overlayLog, lastUnit, started, runInfo>>

driverVars == <<inputVars, previousRenderParams, renderVars>>

vars == <<encoder, batcher, gesture, sampler, solver, solverLog, driverVars>>

\* what an action of one machine leaves alone
encoderOthers == <<batcherVars, gestureVars, samplerVars, solverVars, driverVars>>
batcherOthers == <<encoderVars, gestureVars, samplerVars, solverVars, driverVars>>
gestureOthers == <<encoderVars, batcherVars, samplerVars, solverVars, driverVars>>
samplerOthers == <<encoderVars, batcherVars, gestureVars, solverVars, driverVars>>
solverOthers == <<encoderVars, batcherVars, gestureVars, samplerVars, driverVars>>
driverOthers == <<encoderVars, batcherVars, gestureVars, samplerVars, solverVars>>

\* no call of a handler yet
NoCall == [kind |-> "none", a |-> 0, b |-> 0]

\* the page with the palette coefficients, no gesture under way
Page(coefficients, transformTarget, lastSelectedIndex) ==
  [pc |-> "idle", coefficients |-> coefficients,
   transformBaseCoeffsRef |-> [set |-> FALSE, current |-> << >>],
   transformTarget |-> transformTarget, lastSelectedIndex |-> lastSelectedIndex,
   call |-> NoCall, moved |-> FALSE, gestures |-> 0]

\* the page outside the transform scenario
GestureIdle == gesture = Page(<<COMPLEX_ONE, MinusOne>>, "all", null)

\* the state before any call of getBatchSize
BatcherIdle == batcher = [pc |-> "idle", deg |-> 0, coeffCount |-> 0, result |-> 0]

\* the state before any scan
SamplerIdle ==
  sampler = [pc |-> "idle",
             samplingConfig |-> [mode |-> "by_a0", filterCoeffIndex |-> 0, offset |-> 0],
             stride |-> 1, paletteLength |-> 1, degree |-> 0, totalCount |-> 1,
             budget |-> 1, slot |-> 0, returned |-> << >>]

\* the state before any call
EncoderIdle ==
  encoder = [pc |-> "idle", index |-> 0, degree |-> 0, coeffs |-> << >>,
             acc |-> [poly |-> << >>, digits |-> << >>, temp |-> 0], j |-> 0]

SolverIdle ==
  /\ solver = [pc |-> "idle", coeffs |-> << >>, maxIter |-> 0, degree |-> 0,
               monicCoeffs |-> << >>, roots |-> << >>, iter |-> 0, i |-> 0,
               maxChange |-> 0, finalIter |-> 0, converged |-> FALSE]
  /\ solverLog = [divisions |-> {}, changes |-> << >>, iterStart |-> << >>,
                  skipped |-> {}]

\* the component state the rendering functions work on, as one record
World ==
  [renderingRef |-> renderingRef, overlayRenderingRef |-> overlayRenderingRef,
   frames |-> frames, buffer |-> buffer, overlay |-> overlay,
   isRendering |-> isRendering, rootCount |-> rootCount,
   renderProgress |-> renderProgress, currentRenderFrame |-> currentRenderFrame,
   overlayRenderProgress |-> overlayRenderProgress, reported |-> reported,
   log |-> log, overlayLog |-> overlayLog, lastUnit |-> lastUnit,
   started |-> started, runInfo |-> runInfo]

\* the current state is w
Holds(w) ==
  /\ renderingRef = w.renderingRef
  /\ overlayRenderingRef = w.overlayRenderingRef
  /\ frames = w.frames
  /\ buffer = w.buffer
  /\ overlay = w.overlay
  /\ isRendering = w.isRendering
  /\ rootCount = w.rootCount
  /\ renderProgress = w.renderProgress
  /\ currentRenderFrame = w.currentRenderFrame
  /\ overlayRenderProgress = w.overlayRenderProgress
  /\ reported = w.reported
  /\ log = w.log
  /\ overlayLog = w.overlayLog
  /\ lastUnit = w.lastUnit
  /\ started = w.started
  /\ runInfo = w.runInfo

\* the current state is what a run of the render effect left
HoldsEffect(effect) ==
  /\ previousRenderParams = effect.previousRenderParams
  /\ Holds(effect.w)

\* the next state is w
Commit(w) ==
  /\ renderingRef' = w.renderingRef
  /\ overlayRenderingRef' = w.overlayRenderingRef
  /\ frames' = w.frames
  /\ buffer' = w.buffer
  /\ overlay' = w.overlay
  /\ isRendering' = w.isRendering
  /\ rootCount' = w.rootCount
  /\ renderProgress' = w.renderProgress
  /\ currentRenderFrame' = w.currentRenderFrame
  /\ overlayRenderProgress' = w.overlayRenderProgress
  /\ reported' = w.reported
  /\ log' = w.log
  /\ overlayLog' = w.overlayLog
  /\ lastUnit' = w.lastUnit
  /\ started' = w.started
  /\ runInfo' = w.runInfo

\* FractalCanvas.tsx 1250-1307: the hooks' initial values
Constructed ==
  [renderingRef |-> [id |-> 0, animationId |-> NoHandle],
   overlayRenderingRef |-> [id |-> 0, animationId |-> NoHandle],
   frames |-> {}, buffer |-> {}, overlay |-> [dimmed |-> FALSE, roots |-> {}],
   isRendering |-> FALSE, rootCount |-> 0,
   renderProgress |-> Ratio(0, 1), currentRenderFrame |-> 0,
   overlayRenderProgress |-> Ratio(0, 1), reported |-> << >>,
   log |-> << >>, overlayLog |-> << >>, lastUnit |-> [run |-> 0, id |-> 0],
   started |-> 0,
   runInfo |-> [run |-> 0, preempted |-> FALSE, degree |-> 0, coefficients |-> << >>,
                maxRoots |-> 0, BATCH_SIZE |-> 0, params |-> InitialRenderParams,
                skipInterval |-> 1, polynomialsToRender |-> 0, totalPolynomials |-> 0,
                changedInFlight |-> 0]]

\* the component once mounted: the effects have run for the first time, with
\* no accumulation canvas yet (it is created by the first updateCanvasSize)
Mounted ==
  /\ \E degree \in DriverDegrees, coefficients \in DriverPalettes,
        maxRoots \in MaxRootsValues, view \in Views :
       props = [degree |-> degree, coefficients |-> coefficients, maxRoots |-> maxRoots,
                offsetX |-> view.offsetX, offsetY |-> view.offsetY, zoom |-> view.zoom,
                polynomialNeighborRange |-> NeighborRange]
  /\ BATCH_SIZE \in 1..MaxBatch
  /\ canvasSize = [width |-> 1200, height |-> 1200]
  /\ offscreenCanvasRef = FALSE
  /\ hoveredPolynomialIndex = null
  /\ LET effect == RenderEffect(stopOverlayRendering(Constructed), InitialRenderParams,
                                props, canvasSize, BATCH_SIZE, offscreenCanvasRef)
     IN  HoldsEffect(effect)

\* the component mounted with the props of the hover scenario
OverlayMounted ==
  /\ \E range \in OverlayRanges :
       props = [degree |-> HoverProps.degree, coefficients |-> HoverProps.coefficients,
                maxRoots |-> Infinity, offsetX |-> 0, offsetY |-> 0, zoom |-> Scale,
                polynomialNeighborRange |-> range]
  /\ BATCH_SIZE \in 1..MaxBatch
  /\ canvasSize = [width |-> 1200, height |-> 1200]
  /\ offscreenCanvasRef = FALSE
  /\ hoveredPolynomialIndex = null
  /\ LET effect == RenderEffect(stopOverlayRendering(Constructed), InitialRenderParams,
                                props, canvasSize, BATCH_SIZE, offscreenCanvasRef)
     IN  HoldsEffect(effect)

\* the component not mounted at all: the state of the stand-alone calls
Unmounted ==
  /\ props = [degree |-> 1, coefficients |-> <<COMPLEX_ONE, MinusOne>>,
              maxRoots |-> Infinity, offsetX |-> 0, offsetY |-> 0, zoom |-> Scale,
              polynomialNeighborRange |-> 0]
  /\ BATCH_SIZE = 1
  /\ canvasSize = [width |-> 1200, height |-> 1200]
  /\ offscreenCanvasRef = FALSE
  /\ hoveredPolynomialIndex = null
  /\ previousRenderParams = InitialRenderParams
  /\ Holds(Constructed)

(***************************************************************************)
(* One call of generatePolynomialByIndex, statement by statement           *)
(***************************************************************************)
\* polynomial.ts 26-32: the call, up to the first test of the loop
EncoderCall(index, degree, coeffs) ==
  /\ encoder.pc = "idle"
  /\ encoder' = [pc |-> "loop", index |-> index, degree |-> degree, coeffs |-> coeffs,
                 acc |-> [poly |-> << >>, digits |-> << >>, temp |-> index], j |-> 0]
  /\ UNCHANGED encoderOthers

\* polynomial.ts 33-36: one iteration of the loop
EncoderStep ==
  /\ encoder.pc = "loop"
  /\ PolyLoopContinues(encoder.j, encoder.degree)
  /\ encoder' = [encoder EXCEPT !.acc = PolyBody(encoder.acc, encoder.coeffs),
                                !.j = encoder.j + 1]
  /\ UNCHANGED encoderOthers

\* polynomial.ts 33, 37: the loop condition fails, the function returns poly
EncoderReturn ==
  /\ encoder.pc = "loop"
  /\ ~PolyLoopContinues(encoder.j, encoder.degree)
  /\ encoder' = [encoder EXCEPT !.pc = "done"]
  /\ UNCHANGED encoderOthers

(***************************************************************************)
(* A transform gesture: pointer down on a slider, its value changes, the   *)
(* pointer is released                                                     *)
(***************************************************************************)
\* part_004 153-156, ControlPanel.tsx 470
handleTransformStart ==
  /\ gesture.pc = "idle"
  /\ gesture.gestures < MaxGestures
  /\ gesture' = [gesture EXCEPT
                   !.pc = "active",
                   !.transformBaseCoeffsRef = [set |-> TRUE, current |-> gesture.coefficients],
                   !.call = NoCall, !.moved = FALSE, !.gestures = @ + 1]
  /\ UNCHANGED gestureOthers

\* part_004 159-161, ControlPanel.tsx 111-125
handleTransformEnd ==
  /\ gesture.pc = "active"
  /\ gesture' = [gesture EXCEPT
                   !.pc = "idle",
                   !.transformBaseCoeffsRef = [set |-> FALSE, current |-> << >>]]
  /\ UNCHANGED gestureOthers

\* a handler is called during the gesture: the palette it leaves
HandlerCall(call) ==
  /\ gesture.pc = "active"
  /\ \E after \in {Transformed(call,
                                TransformBase(gesture.transformBaseCoeffsRef,
                                              gesture.coefficients),
                                gesture.coefficients, gesture.transformTarget,
                                gesture.lastSelectedIndex)} :
       gesture' = [gesture EXCEPT
                     !.coefficients = after,
                     !.call = call,
                     !.moved = @ \/ after # gesture.transformBaseCoeffsRef.current]
  /\ UNCHANGED gestureOthers

\* part_004 184-201
handleScaleCoefficients(scaleFactor) ==
  HandlerCall([kind |-> "scale", a |-> scaleFactor, b |-> 0])

\* part_004 205-228
handleRotateCoefficients(angleDegrees) ==
  HandlerCall([kind |-> "rotate", a |-> angleDegrees, b |-> 0])

\* part_004 231-240
handleTranslateCoefficients(dx, dy) ==
  HandlerCall([kind |-> "translate", a |-> dx, b |-> dy])

(***************************************************************************)
(* One call of getBatchSize                                                *)
(***************************************************************************)
\* FractalCanvas.tsx 1329: the component computes its BATCH_SIZE
BatcherCall(deg, coeffCount) ==
  /\ batcher.pc = "idle"
  /\ batcher' = [pc |-> "done", deg |-> deg, coeffCount |-> coeffCount,
                 result |-> getBatchSize(deg, coeffCount)]
  /\ UNCHANGED batcherOthers

\* the value has been used; the next render calls again
BatcherReturn ==
  /\ batcher.pc = "done"
  /\ batcher' = [batcher EXCEPT !.pc = "idle"]
  /\ UNCHANGED batcherOthers

(***************************************************************************)
(* A scan of nextIndex: the driver asks for slot 0, 1, 2, ... in turn      *)
(***************************************************************************)
\* what nextIndex returns for a slot of the scan in progress
SamplerAsk(s, slot) ==
  nextIndex(slot, s.stride, s.samplingConfig, s.totalCount, s.paletteLength, s.degree,
            s.budget)

\* the scan starts: slot 0
SamplerStart(samplingConfig, stride, paletteLength, degree, budget) ==
  /\ sampler.pc = "idle"
  /\ \E s \in {[pc |-> "scan", samplingConfig |-> samplingConfig, stride |-> stride,
                 paletteLength |-> paletteLength, degree |-> degree,
                 totalCount |-> getTotalPolynomials(degree, paletteLength),
                 budget |-> budget, slot |-> 0, returned |-> << >>]} :
       sampler' = [s EXCEPT !.returned = <<SamplerAsk(s, 0)>>]
  /\ UNCHANGED samplerOthers

\* the next slot
SamplerNextSlot ==
  /\ sampler.pc = "scan"
  /\ sampler.slot < MaxSlot
  /\ sampler' = [sampler EXCEPT !.slot = @ + 1,
                                !.returned = Append(@, SamplerAsk(sampler, sampler.slot + 1))]
  /\ UNCHANGED samplerOthers

\* the scan is over
SamplerStop ==
  /\ sampler.pc = "scan"
  /\ sampler' = [sampler EXCEPT !.pc = "idle"]
  /\ UNCHANGED samplerOthers

(***************************************************************************)
(* One call of findRootsDurandKerner, statement by statement               *)
(***************************************************************************)
\* roots.ts 36-68, 111: the call, up to the first test of the iteration loop
SolverCall(coeffs, maxIter) ==
  /\ solver.pc = "idle"
  /\ LET setup == SolverSetup(coeffs)
     IN  /\ solver' = [solver EXCEPT
                 !.pc = CASE setup.kind = "return" -> "done"
                          [] setup.kind = "nonFinite" -> "nonFinite"
                          [] setup.kind = "iterate" -> "loop",
                 !.coeffs = coeffs, !.maxIter = maxIter, !.degree = setup.degree,
                 !.monicCoeffs = setup.monicCoeffs, !.roots = setup.roots,
                 !.converged = (setup.kind = "return")]
         /\ solverLog' = [solverLog EXCEPT
                 !.divisions = IF setup.kind = "return" THEN {}
                               ELSE {[at |-> "normalize", divisor |-> coeffs[setup.degree + 1]]},
                 !.iterStart = setup.roots]
  /\ UNCHANGED solverOthers

\* roots.ts 114-135: the body of the loop over i, for root i
SolverRootStep ==
  /\ solver.pc = "loop"
  /\ solver.iter < solver.maxIter
  /\ solver.i < solver.degree
  /\ LET u == RootUpdate(solver.roots, solver.maxChange, solver.monicCoeffs,
                         solver.i, solver.degree)
     IN  /\ solver' = [solver EXCEPT
                 !.pc = IF u.divided /\ DivisorNorm(u.denom) = 0 THEN "nonFinite" ELSE "loop",
                 !.roots = u.roots, !.maxChange = u.maxChange, !.i = solver.i + 1]
         /\ solverLog' = [solverLog EXCEPT
                 !.divisions = IF u.divided
                               THEN @ \cup {[at |-> "correct", divisor |-> u.denom]} ELSE @,
                 !.skipped = IF u.skipped THEN @ \cup {<<solver.iter, solver.i>>} ELSE @]
  /\ UNCHANGED solverOthers

\* roots.ts 137-142: the end of one iteration and the convergence test
SolverEndIteration ==
  /\ solver.pc = "loop"
  /\ solver.iter < solver.maxIter
  /\ solver.i = solver.degree
  /\ IF BelowTolerance(solver.maxChange, DEFAULT_TOLERANCE)
     THEN solver' = [solver EXCEPT !.finalIter = solver.iter + 1,
                                   !.converged = TRUE, !.pc = "done"]
     ELSE solver' = [solver EXCEPT !.finalIter = solver.iter + 1,
                                   !.iter = solver.iter + 1, !.i = 0, !.maxChange = 0]
  /\ solverLog' = [solverLog EXCEPT !.changes = Append(@, solver.maxChange),
                                    !.iterStart = solver.roots]
  /\ UNCHANGED solverOthers

\* roots.ts 111, 145: the loop condition fails, the function returns
SolverExhausted ==
  /\ solver.pc = "loop"
  /\ solver.iter >= solver.maxIter
  /\ solver' = [solver EXCEPT !.pc = "done"]
  /\ UNCHANGED <<solverLog, solverOthers>>

\* the value returned by the call (roots.ts 43, 50-54, 145)
SolverResult ==
  [roots |-> solver.roots, converged |-> solver.converged, iterations |-> solver.finalIter]


(***************************************************************************)
(* The component: what the parent, the pointer and the browser do to it    *)
(***************************************************************************)
\* the next state is what a run of the effects left, while the bounds allow
CommitEffect(effect) ==
  /\ effect.w.started <= MaxRuns
  /\ effect.w.overlayRenderingRef.id <= MaxOverlayRuns
  /\ previousRenderParams' = effect.previousRenderParams
  /\ Commit(effect.w)

\* history: after is the state a re-render with newProps left of before.  If
\* degree, coefficients or maxRoots changed and the run in flight was left
\* running with a unit pending, runInfo notes how many of its units had run.
Overtaken(before, after, newProps) ==
  IF /\ after.started = before.started
     /\ \/ newProps.degree # props.degree
        \/ newProps.coefficients # props.coefficients
        \/ newProps.maxRoots # props.maxRoots
     /\ \E f \in after.frames :
          f.handle.kind = "main" /\ f.closure.currentRenderId = after.renderingRef.id
  THEN [after EXCEPT !.runInfo.changedInFlight = after.currentRenderFrame]
  ELSE after

\* React re-renders the component with new props or state and runs the
\* effects whose dependencies changed: the overlay effect (1471-1484) when
\* overlayDeps, the render effect (1494-1548) when renderDeps
Rerender(newProps, newBatchSize, newCanvasSize, newOffscreen, newHovered, w, overlayDeps, renderDeps) ==
  LET w1 == IF overlayDeps
            THEN OverlayEffect(w, newHovered, newProps, newCanvasSize)
            ELSE w
      effect == IF renderDeps
                THEN RenderEffect(w1, previousRenderParams, newProps, newCanvasSize,
                                  newBatchSize, newOffscreen)
                ELSE [previousRenderParams |-> previousRenderParams, w |-> w1]
  IN  /\ props' = newProps
      /\ BATCH_SIZE' = newBatchSize
      /\ canvasSize' = newCanvasSize
      /\ offscreenCanvasRef' = newOffscreen
      /\ hoveredPolynomialIndex' = newHovered
      /\ CommitEffect([effect EXCEPT !.w = Overtaken(w, @, newProps)])
      /\ UNCHANGED driverOthers

\* the parent passes another degree
ChangeDegree(degree, batchSize) ==
  /\ degree # props.degree
  /\ Rerender([props EXCEPT !.degree = degree], batchSize, canvasSize,
              offscreenCanvasRef, hoveredPolynomialIndex, World, TRUE, TRUE)

\* the parent passes another coefficients array (a new array, whatever it holds)
ChangeCoefficients(coefficients, batchSize) ==
  /\ Len(coefficients) = Len(props.coefficients) => batchSize = BATCH_SIZE
  /\ Rerender([props EXCEPT !.coefficients = coefficients], batchSize, canvasSize,
              offscreenCanvasRef, hoveredPolynomialIndex, World, TRUE, TRUE)

\* the parent passes another maxRoots
ChangeMaxRoots(maxRoots) ==
  /\ maxRoots # props.maxRoots
  /\ Rerender([props EXCEPT !.maxRoots = maxRoots], BATCH_SIZE, canvasSize,
              offscreenCanvasRef, hoveredPolynomialIndex, World, FALSE, TRUE)

\* the parent passes another offsetX, offsetY or zoom
ChangeView(view) ==
  /\ view # [offsetX |-> props.offsetX, offsetY |-> props.offsetY, zoom |-> props.zoom]
  /\ Rerender([props EXCEPT !.offsetX = view.offsetX, !.offsetY = view.offsetY,
                            !.zoom = view.zoom],
              BATCH_SIZE, canvasSize, offscreenCanvasRef, hoveredPolynomialIndex,
              World, TRUE, TRUE)

\* FractalCanvas.tsx 1388-1409: updateCanvasSize, on the first timeout and on
\* every resize of the window.  Assigning the width of a canvas clears it: the
\* accumulation canvas here, the overlay canvas when React writes a width or
\* height that differs.
Resize(size) ==
  /\ size \in CanvasSizes
  /\ Rerender(props, BATCH_SIZE, size, TRUE, hoveredPolynomialIndex,
              [World EXCEPT
                 !.buffer = {},
                 !.overlay = IF size # canvasSize
                             THEN [dimmed |-> FALSE, roots |-> {}] ELSE @],
              FALSE, TRUE)

\* FractalCanvas.tsx 2323-2358: handleMouseMove over the polynomial strip
Hover(polynomialIndex) ==
  /\ canvasSize.width > canvasSize.height
  /\ polynomialIndex < getTotalPolynomials(props.degree, Len(props.coefficients))
  /\ polynomialIndex # hoveredPolynomialIndex
  /\ Rerender(props, BATCH_SIZE, canvasSize, offscreenCanvasRef, polynomialIndex,
              World, TRUE, FALSE)

\* FractalCanvas.tsx 2361-2364, 2418-2427: the pointer leaves the strip
HoverEnd ==
  /\ hoveredPolynomialIndex # null
  /\ Rerender(props, BATCH_SIZE, canvasSize, offscreenCanvasRef, null,
              World, TRUE, FALSE)

\* as MainFrame, with the unit reading degree, coefficients and the stride
\* from the props current when it runs
MainFrameLive ==
  \E f \in frames :
    /\ f.handle.kind = "main"
    /\ \E delivered \in {[World EXCEPT !.frames = @ \ {f}]} :
         \E live \in {[f.closure EXCEPT
                         !.degree = props.degree,
                         !.coefficients = props.coefficients,
                         !.skipInterval = RenderPlan(props.degree, props.coefficients,
                                                     props.maxRoots, BATCH_SIZE).skipInterval]} :
           \E w \in {processFrame(live, delivered)} : Commit(w)
    /\ UNCHANGED <<inputVars, previousRenderParams, driverOthers>>

\* the browser runs a pending callback of the main run: processFrame
MainFrame ==
  \E f \in frames :
    /\ f.handle.kind = "main"
    /\ \E delivered \in {[World EXCEPT !.frames = @ \ {f}]} :
         \E w \in {processFrame(f.closure, delivered)} : Commit(w)
    /\ UNCHANGED <<inputVars, previousRenderParams, driverOthers>>

\* the browser runs a pending callback of the overlay: processOverlayFrame
OverlayFrame ==
  \E f \in frames :
    /\ f.handle.kind = "overlay"
    /\ \E delivered \in {[World EXCEPT !.frames = @ \ {f}]} :
         \E w \in {processOverlayFrame(f.closure, delivered)} : Commit(w)
    /\ UNCHANGED <<inputVars, previousRenderParams, driverOthers>>

(***************************************************************************)
(* Specifications                                                          *)
(***************************************************************************)
\* the palettes a stand-alone expansion is given
EncoderPalettes == SeqsOf(PaletteValues, 1, MaxPaletteLen)

EncoderInit == EncoderIdle /\ SamplerIdle /\ BatcherIdle /\ GestureIdle /\ SolverIdle /\ Unmounted

EncoderNext ==
  \/ /\ encoder.pc = "idle"
     /\ \E coeffs \in EncoderPalettes, degree \in 0..MaxDegree :
          \E index \in 0..(getTotalPolynomials(degree, Len(coeffs)) - 1) :
            EncoderCall(index, degree, coeffs)
  \/ EncoderStep
  \/ EncoderReturn

EncoderSpec == EncoderInit /\ [][EncoderNext]_vars

SolverInit == SolverIdle /\ EncoderIdle /\ SamplerIdle /\ BatcherIdle /\ GestureIdle /\ Unmounted

\* the positions of the offset slider a scan is given: both ends and the
\* middle, where offset * (stride - 1) is computed exactly
SliderOffsets == {0, OffsetUnit \div 2, OffsetUnit}

\* the configurations a scan is given: a filter mode with a target digit, or
\* the uniform mode with an offset; the budgets it is given are the finite
\* ones, the engine being bypassed otherwise
SamplingConfigs(paletteLength) ==
  {[mode |-> mode, filterCoeffIndex |-> target, offset |-> 0] :
     mode \in {"by_a0", "by_an"}, target \in 0..(paletteLength - 1)}
  \cup {[mode |-> "uniform", filterCoeffIndex |-> 0, offset |-> offset] :
          offset \in SliderOffsets}

SamplerInit == SamplerIdle /\ EncoderIdle /\ BatcherIdle /\ GestureIdle /\ SolverIdle /\ Unmounted

SamplerNext ==
  \/ \E paletteLength \in 1..MaxPaletteLen, degree \in 0..MaxDegree,
        stride \in 1..MaxStride, budget \in MaxRootsValues \ {Infinity} :
       \E samplingConfig \in SamplingConfigs(paletteLength) :
         SamplerStart(samplingConfig, stride, paletteLength, degree, budget)
  \/ SamplerNextSlot
  \/ SamplerStop

SamplerSpec == SamplerInit /\ [][SamplerNext]_vars

SolverNext ==
  \/ /\ solver.pc = "idle"
     /\ \E coeffs \in SeqsOf(CoeffValues, 0, MaxDegree + 1), maxIter \in 0..MaxIterBound :
          SolverCall(coeffs, maxIter)
  \/ SolverRootStep
  \/ SolverEndIteration
  \/ SolverExhausted

SolverSpec == SolverInit /\ [][SolverNext]_vars

\* the degrees and palette lengths getBatchSize is given: those of the
\* sliders, 0, and one degree far beyond
BatchDegrees == (0..MaxBatchDegree) \cup {CostlyDegree}

BatchCoeffCounts == 0..MaxBatchCoeffs

BatcherInit == BatcherIdle /\ EncoderIdle /\ SamplerIdle /\ GestureIdle /\ SolverIdle /\ Unmounted

BatcherNext ==
  \/ \E deg \in BatchDegrees, coeffCount \in BatchCoeffCounts : BatcherCall(deg, coeffCount)
  \/ BatcherReturn

BatcherSpec == BatcherInit /\ [][BatcherNext]_vars

\* the palettes, targets and selections a gesture starts from
GesturePalettes ==
  {<< >>, <<COMPLEX_ONE>>, <<Half, Two>>, <<Half, COMPLEX_ONE, ImagOne>>}

TransformTargets == {"all", "even", "odd", "selected"}

SelectedIndices == {null, 0, 2}

\* ControlPanel.tsx 474: Math.pow(4, value / 100), here a half, 1 and 2
ScaleFactors == {RoundDiv(Scale, 2), Scale, 2 * Scale}

\* ControlPanel.tsx 501: (value / 100) * 180
Angles == {0, 90, 180, 0 - 90}

\* ControlPanel.tsx 528-530, 556-558: (dx, 0) and (0, dy)
Offsets == {<<0, 0>>, <<Scale, 0>>, <<0, 0 - RoundDiv(Scale, 2)>>}

GestureInit ==
  /\ \E coefficients \in GesturePalettes, transformTarget \in TransformTargets,
        lastSelectedIndex \in SelectedIndices :
       gesture = Page(coefficients, transformTarget, lastSelectedIndex)
  /\ EncoderIdle /\ SamplerIdle /\ BatcherIdle /\ SolverIdle /\ Unmounted

GestureNext ==
  \/ handleTransformStart
  \/ \E scaleFactor \in ScaleFactors : handleScaleCoefficients(scaleFactor)
  \/ \E angleDegrees \in Angles : handleRotateCoefficients(angleDegrees)
  \/ \E offset \in Offsets : handleTranslateCoefficients(offset[1], offset[2])
  \/ handleTransformEnd

GestureSpec == GestureInit /\ [][GestureNext]_vars

Init == Mounted /\ EncoderIdle /\ SamplerIdle /\ BatcherIdle /\ GestureIdle /\ SolverIdle

Next ==
  \/ \E degree \in DriverDegrees, batchSize \in 1..MaxBatch : ChangeDegree(degree, batchSize)
  \/ \E coefficients \in DriverPalettes, batchSize \in 1..MaxBatch :
       ChangeCoefficients(coefficients, batchSize)
  \/ \E maxRoots \in MaxRootsValues : ChangeMaxRoots(maxRoots)
  \/ \E view \in Views : ChangeView(view)
  \/ \E size \in CanvasSizes : Resize(size)
  \/ \E polynomialIndex \in HoverIndices : Hover(polynomialIndex)
  \/ HoverEnd
  \/ MainFrame
  \/ OverlayFrame

Spec == Init /\ [][Next]_vars

\* the hover scenario: the parent keeps degree, palette and budget, the window
\* is resized, the view changes and the pointer moves over the strip
OverlayInit == OverlayMounted /\ EncoderIdle /\ SamplerIdle /\ BatcherIdle /\ GestureIdle /\ SolverIdle

OverlayNext ==
  \/ \E view \in Views : ChangeView(view)
  \/ \E size \in CanvasSizes : Resize(size)
  \/ \E polynomialIndex \in OverlayHoverIndices : Hover(polynomialIndex)
  \/ HoverEnd
  \/ MainFrame
  \/ OverlayFrame

OverlaySpec == OverlayInit /\ [][OverlayNext]_vars

\* the browser keeps delivering animation frames
LiveSpec == Spec /\ WF_vars(MainFrame) /\ WF_vars(OverlayFrame)

\* the statement-by-statement call returns what the function computes
SolverAgrees ==
  solver.pc = "done" =>
    LET r == findRootsDurandKerner(solver.coeffs, solver.maxIter)
    IN  /\ r.roots = solver.roots
        /\ r.converged = solver.converged
        /\ r.iterations = solver.finalIter

(***************************************************************************)
(* Claims about the rendering driver, checked under Spec and LiveSpec      *)
(***************************************************************************)
\* the pending callbacks of the main run
MainFrames == {f \in frames : f.handle.kind = "main"}

\* the work of a unit is that of the latest run, whose id is the current one
OfCurrentRun(e) == e.run = started /\ e.id = renderingRef.id

\* C1: once renderFractal has started a new run, nothing is done by a unit of
\* an earlier run: every evaluated slot, every root on the accumulation
\* buffer, the last write of the counters, every pending unit and every
\* final report belongs to the latest run, whose id is renderingRef.id
C1_NoStaleWork ==
  /\ \A e \in buffer : OfCurrentRun(e)
  /\ \A k \in DOMAIN log : OfCurrentRun(log[k])
  /\ \A k \in DOMAIN reported : OfCurrentRun(reported[k])
  /\ \A f \in MainFrames :
       f.closure.run = started /\ f.closure.currentRenderId = renderingRef.id
  /\ started > 0 => OfCurrentRun(lastUnit)

\* a run was started while a unit of the previous run was pending, and has
\* since drawn roots in a second unit of its own
C1_Witness ==
  /\ runInfo.preempted
  /\ started >= 2
  /\ currentRenderFrame >= 2
  /\ buffer # {}

\* the latest run has visited all its slots and finalized once
Finalized ==
  /\ Len(log) = runInfo.polynomialsToRender
  /\ Len(reported) = 1
  /\ ~isRendering
  /\ MainFrames = {}

\* C2: while no new run is started and animation frames keep being delivered,
\* a run comes to have processed all its polynomialsToRender slots and to have
\* finalized: one report of the statistics and of completion, the rendering
\* flag cleared, no unit pending; and no run ever reports twice
C2_RunFinalizes ==
  /\ \A r \in 1..MaxRuns : (started = r) ~> (started # r \/ Finalized)
  /\ [](Len(reported) <= 1)
  /\ [][Finalized /\ started' = started => Finalized']_vars

\* a run of several units has finalized
C2_Witness ==
  /\ started >= 1
  /\ Finalized
  /\ currentRenderFrame >= 2

\* C3: the slots evaluated by a run are 0, 1, 2, ... in this order, none
\* skipped or repeated, and slot s is polynomial index s * skipInterval; a
\* run that has finalized has evaluated every slot
C3_SlotOrder ==
  /\ \A k \in DOMAIN log :
       /\ log[k].slot = k - 1
       /\ log[k].index = (k - 1) * runInfo.skipInterval
  /\ \A k \in DOMAIN log : k > 1 =>
       /\ log[k].index > log[k - 1].index
       /\ log[k].index - log[k - 1].index = runInfo.skipInterval
  /\ Len(log) <= runInfo.polynomialsToRender
  /\ reported # << >> => Len(log) = runInfo.polynomialsToRender

\* a run with a stride above 1 has evaluated at least three slots in at least
\* two units
C3_Witness ==
  /\ runInfo.skipInterval > 1
  /\ Len(log) >= 3
  /\ currentRenderFrame >= 2

\* C10: every root on the accumulation buffer and on the hover overlay is a
\* root of a polynomial whose solve converged; the emitted-roots total counts
\* roots of converged polynomials only; no polynomial is solved twice by the
\* same run or the same overlay
C10_OnlyConvergedEmitted ==
  /\ \A e \in buffer :
       /\ e.converged
       /\ \E k \in DOMAIN log : log[k].index = e.index /\ log[k].converged
  /\ \A e \in overlay.roots :
       /\ e.converged
       /\ \E k \in DOMAIN overlayLog :
            overlayLog[k].index = e.index /\ overlayLog[k].converged
  /\ started > 0 =>
       rootCount <= runInfo.degree * Cardinality({k \in DOMAIN log : log[k].converged})
  /\ \A j, k \in DOMAIN log : j # k => log[j].index # log[k].index
  /\ \A j, k \in DOMAIN overlayLog : j # k => overlayLog[j].index # overlayLog[k].index

\* a finished run and an overlay have each met a polynomial that did not
\* converge and drawn the roots of others
C10_Witness ==
  /\ reported # << >>
  /\ \E k \in DOMAIN log : ~log[k].converged
  /\ buffer # {}
  /\ \E k \in DOMAIN overlayLog : ~overlayLog[k].converged
  /\ overlay.roots # {}

\* C11: a run started with a finite maxRoots >= 1 that has run to completion
\* has emitted at most polynomialsToRender * degree roots, and never more than
\* maxRoots
C11_WithinBudget ==
  \A k \in DOMAIN reported :
    (runInfo.maxRoots # Infinity /\ runInfo.maxRoots >= 1 /\ runInfo.degree >= 1) =>
      /\ reported[k].totalRoots <= runInfo.polynomialsToRender * runInfo.degree
      /\ reported[k].totalRoots <= runInfo.maxRoots

\* the latest run was started with a budget that asks for no sampling
Unsampled ==
  /\ started > 0
  /\ \/ runInfo.maxRoots = Infinity
     \/ runInfo.maxRoots >= runInfo.totalPolynomials * runInfo.degree

\* C12: with maxRoots infinite or at least total * degree the stride is 1 and
\* slot s is polynomial index s; a run that has finalized has evaluated every
\* index 0 .. total-1 once, in increasing order: the polynomials of the
\* one-pass enumeration generatePolynomials, in its order
C12_FullEnumeration ==
  Unsampled =>
    /\ runInfo.skipInterval = 1
    /\ \A k \in DOMAIN log : log[k].index = k - 1 /\ log[k].slot = k - 1
    /\ reported # << >> =>
         /\ Len(log) = runInfo.totalPolynomials
         /\ [k \in 1..Len(log) |-> log[k].poly]
              = generatePolynomials(runInfo.degree, runInfo.coefficients)

\* a run without a budget has finalized after visiting all 8 polynomials of
\* degree 2 over two coefficients in at least four units
C12_Witness ==
  /\ Unsampled
  /\ runInfo.maxRoots = Infinity
  /\ reported # << >>
  /\ Len(log) = 8
  /\ currentRenderFrame >= 4

\* the tracked values of the current props and state (FractalCanvas.tsx
\* 1498-1503, 1530-1541)
CurrentParams ==
  RenderParams(props, canvasSize,
               RenderPlan(props.degree, props.coefficients, props.maxRoots,
                          BATCH_SIZE).framesToRender)

\* C13: the values recorded in previousRenderParams are the current tracked
\* values (degree, palette, canvas size, offset, zoom, framesToRender), they
\* are recorded only together with the start of a run for them, and so the
\* latest run was started with the current tracked values
C13_RunTracksParams ==
  /\ previousRenderParams = CurrentParams
  /\ previousRenderParams # InitialRenderParams =>
       /\ started > 0
       /\ runInfo.params = previousRenderParams

\* the window has been measured, the accumulation canvas exists, the current
\* values are recorded, and no run was ever started
C13_NeverRendered ==
  /\ offscreenCanvasRef
  /\ previousRenderParams = CurrentParams
  /\ started = 0

\* a step in which the parent passes another maxRoots and nothing else changes
MaxRootsAloneChanges ==
  /\ props'.maxRoots # props.maxRoots
  /\ props' = [props EXCEPT !.maxRoots = props'.maxRoots]
  /\ UNCHANGED <<BATCH_SIZE, canvasSize, offscreenCanvasRef, hoveredPolynomialIndex>>

\* framesToRender = ceil(polynomialsToRender / batchSize) for the props p
FramesToRenderOf(p, batchSize) ==
  RenderPlan(p.degree, p.coefficients, p.maxRoots, batchSize).framesToRender

\* C14: a change of maxRoots alone starts a new run if and only if
\* framesToRender changes; when framesToRender stays, the run id, the pending
\* unit, the counters, the slots evaluated, the report and the accumulation
\* buffer stay as they are
C14_BudgetChange ==
  [][MaxRootsAloneChanges =>
       /\ (started' = started + 1) <=>
            (FramesToRenderOf(props', BATCH_SIZE) # FramesToRenderOf(props, BATCH_SIZE))
       /\ (FramesToRenderOf(props', BATCH_SIZE) = FramesToRenderOf(props, BATCH_SIZE)) =>
            UNCHANGED <<started, renderingRef, frames, buffer, rootCount, renderProgress,
                        currentRenderFrame, isRendering, log, reported, runInfo>>]_vars

\* the polynomials the latest run attempted, and what their solves summed to
Attempted == Len(log)

ConvergedOfRun == Cardinality({k \in DOMAIN log : log[k].converged})

RECURSIVE IterationsUpTo(_)
IterationsUpTo(k) == IF k = 0 THEN 0 ELSE IterationsUpTo(k - 1) + log[k].iterations

\* C15: the statistics a finalized run reports are taken over the polynomials
\* it attempted: the convergence rate is 100 * converged / attempted, the
\* average iteration count is the sum of the iterations of all attempted
\* polynomials / attempted, converged <= attempted, and a run whose attempted
\* polynomials all converged reports 100%
C15_StatsOverAttempted ==
  \A k \in DOMAIN reported :
    Attempted > 0 =>
      LET rate == reported[k].convergenceRate
          avg == reported[k].avgIterations
      IN  /\ rate.num * Attempted = 100 * ConvergedOfRun * rate.den
          /\ avg.num * Attempted = IterationsUpTo(Attempted) * avg.den
          /\ ConvergedOfRun <= Attempted
          /\ ConvergedOfRun = Attempted => rate.num = 100 * rate.den

\* a sampled run has finalized with every attempted polynomial converged
C15_SampledAllConverged ==
  /\ reported # << >>
  /\ Attempted > 0
  /\ Attempted < runInfo.totalPolynomials
  /\ ConvergedOfRun = Attempted

\* the pending units that would still do work: those whose captured id is
\* the current one
LiveFrames == {f \in MainFrames : f.closure.currentRenderId = renderingRef.id}

\* C16: the run id is a monotonic counter.  Every run started sets it to the
\* previous id plus one and nothing else changes it, so it never decreases and
\* no id is used by two runs; at any moment the pending units able to make
\* progress are at most one, of the run whose captured id is the current id
C16_MonotonicId ==
  /\ [](Cardinality(LiveFrames) <= 1 /\ \A f \in LiveFrames : f.closure.run = started)
  /\ [][/\ renderingRef'.id >= renderingRef.id
        /\ started' # started =>
             (started' = started + 1 /\ renderingRef'.id = renderingRef.id + 1)
        /\ renderingRef'.id # renderingRef.id => started' = started + 1]_vars

\* a second run has been started while a unit of the first was pending, and
\* has a unit of its own pending
C16_Witness ==
  /\ started = 2
  /\ renderingRef.id = 2
  /\ runInfo.preempted
  /\ LiveFrames # {}

\* C17: every polynomial a run evaluates, in each of its units, is expanded
\* from the degree and the palette the run was started with and solved with
\* the stride, the batch size and the iteration limit computed at that start,
\* whatever the props have become since; the pending unit carries the same
\* values
C17_StartValues ==
  /\ \A k \in DOMAIN log :
       /\ log[k].degree = runInfo.degree
       /\ log[k].coefficients = runInfo.coefficients
       /\ log[k].skipInterval = runInfo.skipInterval
       /\ log[k].BATCH_SIZE = runInfo.BATCH_SIZE
       /\ log[k].maxIterations = adaptiveMaxIterations(runInfo.degree)
       /\ log[k].index = log[k].slot * runInfo.skipInterval
       /\ log[k].poly = generatePolynomialByIndex(log[k].index, runInfo.degree,
                                                  runInfo.coefficients)
  /\ \A f \in LiveFrames :
       /\ f.closure.degree = runInfo.degree
       /\ f.closure.coefficients = runInfo.coefficients
       /\ f.closure.skipInterval = runInfo.skipInterval
       /\ f.closure.BATCH_SIZE = runInfo.BATCH_SIZE

\* maxRoots changed under a run that was left running, the stride the new
\* value asks for is another one, and a later unit of the run has since
\* evaluated a polynomial
C17_Witness ==
  /\ runInfo.changedInFlight > 0
  /\ \E k \in DOMAIN log : log[k].unit > runInfo.changedInFlight
  /\ RenderPlan(props.degree, props.coefficients, props.maxRoots,
                BATCH_SIZE).skipInterval # runInfo.skipInterval

\* the polynomial indices the budget of the props p selects: slot s of the
\* plan is index s * skipInterval
SelectedBy(p, batchSize) ==
  LET plan == RenderPlan(p.degree, p.coefficients, p.maxRoots, batchSize)
  IN  {SlotIndex(s, plan.skipInterval) : s \in 0..(plan.polynomialsToRender - 1)}

\* the render effect has run for the current props and state
Settled == previousRenderParams = CurrentParams

\* C26: two finite budgets that give the current degree, palette and batch
\* size the same framesToRender give them the same skipInterval and the same
\* polynomialsToRender; and once a run has finalized and the render effect has
\* seen the current inputs, the indices evaluated and the indices of the
\* roots on the accumulation buffer are those the current budget selects
C26_SameFramesSameSelection ==
  /\ \A a, b \in MaxRootsValues \ {Infinity} :
       LET planA == RenderPlan(props.degree, props.coefficients, a, BATCH_SIZE)
           planB == RenderPlan(props.degree, props.coefficients, b, BATCH_SIZE)
       IN  planA.framesToRender = planB.framesToRender =>
             /\ planA.skipInterval = planB.skipInterval
             /\ planA.polynomialsToRender = planB.polynomialsToRender
  /\ (Finalized /\ Settled /\ props.maxRoots # Infinity) =>
       /\ {log[k].index : k \in DOMAIN log} = SelectedBy(props, BATCH_SIZE)
       /\ {e.index : e \in buffer} \subseteq SelectedBy(props, BATCH_SIZE)

\* a run started with maxRoots 3 has finalized with the roots of polynomials
\* 0 and 6 on the buffer; maxRoots is now 5, which selects polynomials 0 and
\* 4 in as many units, and the render effect has run without starting a run
C26_StaleSelection ==
  /\ Finalized
  /\ Settled
  /\ runInfo.maxRoots = 3
  /\ props.maxRoots = 5
  /\ runInfo.params = previousRenderParams
  /\ {log[k].index : k \in DOMAIN log} = {0, 6}
  /\ 6 \in {e.index : e \in buffer}
  /\ SelectedBy(props, BATCH_SIZE) = {0, 4}

\* C27: the index s * skipInterval of every slot s below polynomialsToRender
\* is a polynomial index in [0, totalPolynomials), and so is every index a
\* run has evaluated; the loop of a unit is never left at the out-of-range
\* test: a unit that starts with slots remaining advances the slot counter by
\* the batch size or to polynomialsToRender
C27_SlotsInRange ==
  /\ [](started > 0 =>
          /\ \A s \in 0..(runInfo.polynomialsToRender - 1) :
               SlotIndex(s, runInfo.skipInterval) \in 0..(runInfo.totalPolynomials - 1)
          /\ \A k \in DOMAIN log :
               /\ log[k].slot = k - 1
               /\ log[k].index = SlotIndex(log[k].slot, runInfo.skipInterval)
               /\ log[k].index \in 0..(runInfo.totalPolynomials - 1)
          /\ Len(log) <= runInfo.polynomialsToRender)
  /\ [][(started' = started /\ currentRenderFrame' # currentRenderFrame
           /\ Len(log) < runInfo.polynomialsToRender) =>
          Len(log') = MathMin(Len(log) + runInfo.BATCH_SIZE, runInfo.polynomialsToRender)]_vars

\* a run of stride 3 over 8 polynomials has finalized after evaluating its
\* last slot, index 6, in a unit of its own
C27_Witness ==
  /\ Finalized
  /\ runInfo.skipInterval = 3
  /\ runInfo.totalPolynomials = 8
  /\ runInfo.polynomialsToRender = 3
  /\ log[3].index = 6
  /\ log[3].unit > log[2].unit

\* the pending callbacks of the overlay
OverlayFrames == {f \in frames : f.handle.kind = "overlay"}

\* the latest run of the overlay effect has started an overlay run, which
\* nothing has superseded: its first unit was scheduled under the current id
OverlayStarted ==
  /\ hoveredPolynomialIndex # null
  /\ overlayRenderingRef.animationId.kind = "overlay"
  /\ overlayRenderingRef.animationId.run = overlayRenderingRef.id

\* max(0, h - r) and min(total - 1, h + r) for the hovered index h
HoverFirst == MathMax(0, hoveredPolynomialIndex - props.polynomialNeighborRange)

HoverLast ==
  MathMin(getTotalPolynomials(props.degree, Len(props.coefficients)) - 1,
          hoveredPolynomialIndex + props.polynomialNeighborRange)

\* C29: an overlay run for the hovered index h in [0, total) evaluates the
\* indices max(0, h - r) .. min(total - 1, h + r), each once and in increasing
\* order, none outside [0, total), all of them once no unit is pending, and at
\* most 8 in a unit; every pending overlay unit and every evaluation on
\* record is of the current overlay id, so that after the hover has ended or
\* moved no unit of the earlier run draws, and without a hover nothing is
\* pending or drawn
C29_HoverOverlay ==
  /\ []((OverlayStarted
          /\ hoveredPolynomialIndex
               < getTotalPolynomials(props.degree, Len(props.coefficients))) =>
          /\ \A k \in DOMAIN overlayLog :
               /\ overlayLog[k].id = overlayRenderingRef.id
               /\ overlayLog[k].index = HoverFirst + k - 1
               /\ overlayLog[k].index <= HoverLast
               /\ overlayLog[k].index
                    \in 0..(getTotalPolynomials(props.degree, Len(props.coefficients)) - 1)
          /\ \A f \in OverlayFrames : f.closure.currentPolyIdx = HoverFirst + Len(overlayLog)
          /\ OverlayFrames = {} => Len(overlayLog) = HoverLast - HoverFirst + 1)
  /\ [](/\ \A f \in OverlayFrames : f.closure.currentRenderId = overlayRenderingRef.id
        /\ Cardinality(OverlayFrames) <= 1
        /\ hoveredPolynomialIndex = null => OverlayFrames = {} /\ overlay.roots = {})
  /\ [][overlayLog' # overlayLog =>
          \/ overlayLog' = << >>
          \/ /\ overlayRenderingRef'.id = overlayRenderingRef.id
             /\ \A k \in DOMAIN overlayLog' : overlayLog'[k].id = overlayRenderingRef.id
             /\ Len(overlayLog') > Len(overlayLog)
             /\ Len(overlayLog') <= Len(overlayLog) + OVERLAY_BATCH_SIZE]_vars

\* polynomial 4 of 9 is hovered with a range of 5: the overlay run has
\* evaluated 0 .. 8, clamped at both ends, 8 in its first unit and the last
\* in a second, after an earlier overlay run for polynomial 1 was superseded
C29_Witness ==
  /\ OverlayStarted
  /\ hoveredPolynomialIndex = 4
  /\ props.polynomialNeighborRange = 5
  /\ overlayRenderingRef.id = 3
  /\ OverlayFrames = {}
  /\ Len(overlayLog) = 9
  /\ overlayLog[1].index = 0
  /\ overlayLog[9].index = 8

\* the latest run was started with an empty palette
EmptyPaletteRun == started > 0 /\ runInfo.coefficients = << >>

\* the latest run was started with an empty palette or with degree 0
InvalidConfigRun == started > 0 /\ (runInfo.coefficients = << >> \/ runInfo.degree = 0)

\* C20: a run started with an empty palette or with degree 0 draws and
\* reports no root, hands the solver only polynomials of degree + 1
\* coefficients that are entries of the palette, and finalizes like any other
\* run; with an empty palette it evaluates no slot at all and has finalized
\* when renderFractal returns
C20_InvalidConfiguration ==
  /\ [](InvalidConfigRun =>
          /\ buffer = {}
          /\ rootCount = 0
          /\ \A k \in DOMAIN reported : reported[k].totalRoots = 0
          /\ \A k \in DOMAIN log :
               /\ Len(log[k].poly) = runInfo.degree + 1
               /\ \A j \in DOMAIN log[k].poly :
                    \E c \in DOMAIN runInfo.coefficients :
                      log[k].poly[j] = runInfo.coefficients[c])
  /\ [](EmptyPaletteRun => (log = << >> /\ Finalized))
  /\ \A r \in 1..MaxRuns :
       (started = r /\ InvalidConfigRun) ~> (started # r \/ Finalized)

\* a run of degree 0 over a palette of two entries has finalized after two
\* units, each polynomial solved
C20_Witness ==
  /\ started > 0
  /\ runInfo.degree = 0
  /\ Len(runInfo.coefficients) = 2
  /\ Finalized
  /\ Len(log) = 2
  /\ currentRenderFrame = 2
  /\ \A k \in DOMAIN log : log[k].converged

\* the units the latest run is planned to take, and the slots its unit u has
\* evaluated
UnitsPlanned == CeilDiv(runInfo.polynomialsToRender, runInfo.BATCH_SIZE)

UnitSlots(u) == Cardinality({k \in DOMAIN log : log[k].unit = u})

\* progress p is the fraction done / planned, in percent
ProgressIs(p, done, planned) == p.num * planned = done * 100 * p.den

\* C21: a unit runs its loop to the end before anything else happens; a run
\* with polynomialsToRender > 0 has, after each of its units, evaluated
\* exactly batchSize slots in every unit but the last planned one and at most
\* batchSize there, shows the progress currentFrame / framesToRender, has a
\* unit pending unless it has finalized, and finalizes in unit framesToRender
\* = ceil(polynomialsToRender / batchSize) with a progress of exactly 100;
\* from unit to unit the progress of a run rises strictly
C21_UnitsAndProgress ==
  /\ []((started > 0 /\ runInfo.polynomialsToRender > 0) =>
          /\ currentRenderFrame \in 1..UnitsPlanned
          /\ \A k \in DOMAIN log : log[k].unit \in 1..currentRenderFrame
          /\ \A u \in 1..currentRenderFrame :
               /\ UnitSlots(u) <= runInfo.BATCH_SIZE
               /\ u < UnitsPlanned => UnitSlots(u) = runInfo.BATCH_SIZE
          /\ ProgressIs(renderProgress, currentRenderFrame, UnitsPlanned)
          /\ (currentRenderFrame = UnitsPlanned) <=> Finalized
          /\ Finalized => ProgressIs(renderProgress, 1, 1)
          /\ ~Finalized => Cardinality(LiveFrames) = 1)
  /\ [][(started' = started /\ renderProgress' # renderProgress) =>
          /\ renderProgress'.num * renderProgress.den
               > renderProgress.num * renderProgress'.den
          /\ currentRenderFrame' = currentRenderFrame + 1]_vars

\* a run of three polynomials and batch size 2 has finalized: a unit of two
\* slots, then a last unit of one
C21_Witness ==
  /\ started > 0
  /\ runInfo.polynomialsToRender = 3
  /\ runInfo.BATCH_SIZE = 2
  /\ Finalized
  /\ UnitSlots(1) = 2
  /\ UnitSlots(2) = 1

(***************************************************************************)
(* Claims about the index encoding, checked under EncoderSpec              *)
(***************************************************************************)
EncoderN == Len(encoder.coeffs)

\* C4: for every palette of length N >= 1, degree d >= 0 and index in
\* [0, N^(d+1)), generatePolynomialByIndex returns exactly d+1 coefficients
\* and the one at power j is palette[floor(index / N^j) mod N].
C4_DigitSelectsCoefficient ==
  encoder.pc = "done" =>
    /\ Len(encoder.acc.poly) = encoder.degree + 1
    /\ \A j \in 0..encoder.degree :
         encoder.acc.poly[j + 1] =
           encoder.coeffs[((encoder.index \div Pow(EncoderN, j)) % EncoderN) + 1]

\* C4 witness: index 5 expanded over a palette of 2 at degree 2 (digits 1,0,1)
C4_Witness ==
  /\ encoder.pc = "done"
  /\ encoder.index = 5
  /\ encoder.degree = 2
  /\ encoder.coeffs = <<COMPLEX_ONE, MinusOne>>
  /\ encoder.acc.poly = <<MinusOne, COMPLEX_ONE, MinusOne>>

RECURSIVE Recombine(_, _)
\* sum of digits[j+1] * n^j
Recombine(digits, n) ==
  IF digits = << >> THEN 0 ELSE Head(digits) + n * Recombine(Tail(digits), n)

\* the digits read back from a polynomial's coefficients: for each one the
\* palette position that holds it (palette entries pairwise distinct)
DigitsOfPolynomial(poly, coeffs) ==
  [j \in 1..Len(poly) |-> (CHOOSE k \in 1..Len(coeffs) : coeffs[k] = poly[j]) - 1]

PairwiseDistinct(coeffs) ==
  \A a, b \in 1..Len(coeffs) : coeffs[a] = coeffs[b] => a = b

\* C5: the encoding is a bijection between [0, N^(d+1)) and the digit
\* vectors of length d+1 over 0..N-1: recombining the digits used for an index
\* as sum(digit_j * N^j) recovers the index (also with the digits read back
\* from the polynomial, when the palette entries are pairwise distinct), no
\* other in-range index has the same digits, and every digit vector is the
\* digits of the in-range index it recombines to.
C5_IndexBijection ==
  encoder.pc = "done" =>
    LET total == getTotalPolynomials(encoder.degree, EncoderN)
        digits == encoder.acc.digits
    IN  /\ digits \in [1..(encoder.degree + 1) -> 0..(EncoderN - 1)]
        /\ Recombine(digits, EncoderN) = encoder.index
        /\ PairwiseDistinct(encoder.coeffs) =>
             Recombine(DigitsOfPolynomial(encoder.acc.poly, encoder.coeffs), EncoderN)
               = encoder.index
        /\ \A other \in 0..(total - 1) :
             other # encoder.index =>
               IndexDigits(other, encoder.degree, encoder.coeffs) # digits
        /\ \A v \in [1..(encoder.degree + 1) -> 0..(EncoderN - 1)] :
             /\ Recombine(v, EncoderN) \in 0..(total - 1)
             /\ IndexDigits(Recombine(v, EncoderN), encoder.degree, encoder.coeffs) = v

\* C5 witness: the last index of a palette of 2 distinct entries at degree 2
\* has been expanded, its digits are all 1
C5_Witness ==
  /\ encoder.pc = "done"
  /\ encoder.degree = 2
  /\ PairwiseDistinct(encoder.coeffs)
  /\ EncoderN = 2
  /\ encoder.index = getTotalPolynomials(2, 2) - 1
  /\ encoder.acc.digits = <<1, 1, 1>>

(***************************************************************************)
(* Claims about the sampling engine, checked under SamplerSpec             *)
(***************************************************************************)
\* the scan in progress or just over is one of mode, and has asked for slot
Scanned(mode, slot) ==
  /\ sampler.returned # << >>
  /\ sampler.samplingConfig.mode = mode
  /\ slot \in 0..sampler.slot

\* what the scan got for slot
Returned(slot) == sampler.returned[slot + 1]

\* the statement of C18 about slot
ConstantTermFiltered(slot) ==
  LET target == sampler.samplingConfig.filterCoeffIndex
      computed == target + slot * sampler.stride * sampler.paletteLength
  IN  /\ Returned(slot) = Sentinel <=> computed >= sampler.totalCount
      /\ Returned(slot) # Sentinel =>
           /\ Returned(slot) % sampler.paletteLength = target
           /\ Returned(slot) >= 0
           /\ Returned(slot) < sampler.totalCount

\* C18: in filter-by-constant-term mode with target t (0 <= t <
\* paletteLength), whatever the slot and the stride >= 1, nextIndex returns the
\* sentinel or an index < totalCount with index mod paletteLength = t, and the
\* sentinel exactly when t + slot * stride * paletteLength >= totalCount
C18_ConstantTerm ==
  \A slot \in 0..MaxSlot : Scanned("by_a0", slot) => ConstantTermFiltered(slot)

\* a scan by the constant term, with a target other than 0 and a stride of 2,
\* got an index for a slot after the first and the sentinel for a later one
C18_Witness ==
  /\ sampler.samplingConfig = [mode |-> "by_a0", filterCoeffIndex |-> 1, offset |-> 0]
  /\ sampler.stride = 2
  /\ sampler.slot >= 2
  /\ Returned(1) # Sentinel
  /\ Returned(sampler.slot) = Sentinel

\* the statement of C19 about slot
LeadingTermFiltered(slot) ==
  LET target == sampler.samplingConfig.filterCoeffIndex
      blockSize == Pow(sampler.paletteLength, sampler.degree)
  IN  /\ Returned(slot) # Sentinel =>
           /\ Returned(slot) >= target * blockSize
           /\ Returned(slot) < (target + 1) * blockSize
           /\ IndexDigits(Returned(slot), sampler.degree,
                          [k \in 1..sampler.paletteLength |-> k])[sampler.degree + 1] = target
      /\ \A earlier \in 0..slot : Returned(earlier) = Sentinel => Returned(slot) = Sentinel

\* C19: in filter-by-leading-term mode with target t (0 <= t < paletteLength)
\* and degree d, whatever the slot and the stride >= 1, nextIndex returns the
\* sentinel or an index in [t * N^d, (t + 1) * N^d), whose highest base-N digit
\* is t; after a slot that returned the sentinel every slot returns it
C19_LeadingTerm ==
  \A slot \in 0..MaxSlot : Scanned("by_an", slot) => LeadingTermFiltered(slot)

\* a scan by the leading term, with a target other than 0, got an index for a
\* slot after the first, then the sentinel twice
C19_Witness ==
  /\ sampler.samplingConfig = [mode |-> "by_an", filterCoeffIndex |-> 1, offset |-> 0]
  /\ sampler.degree >= 1
  /\ sampler.slot >= 3
  /\ Returned(1) # Sentinel
  /\ Returned(sampler.slot - 1) = Sentinel
  /\ Returned(sampler.slot) = Sentinel

\* C28: in uniform mode, whatever the stride >= 1 and the offset in [0, 1],
\* for every slot below ceil(totalCount / stride), the number of polynomials
\* the budget selects, nextIndex returns a polynomial index in
\* [0, totalCount)
C28_UniformInRange ==
  \A slot \in 0..MaxSlot :
    (Scanned("uniform", slot) /\ slot < CeilDiv(sampler.totalCount, sampler.stride)) =>
      Returned(slot) \in 0..(sampler.totalCount - 1)

\* a uniform scan of 4 polynomials with stride 3 and the offset at its upper
\* end got index 5 for slot 1, the second of the ceil(4 / 3) = 2 slots
C28_PastTheEnd ==
  /\ sampler.samplingConfig.mode = "uniform"
  /\ sampler.samplingConfig.offset = OffsetUnit
  /\ sampler.stride = 3
  /\ sampler.totalCount = 4
  /\ sampler.slot >= 1
  /\ 1 < CeilDiv(sampler.totalCount, sampler.stride)
  /\ Returned(1) = 5

(***************************************************************************)
(* Claims about the solver, checked under SolverSpec                       *)
(***************************************************************************)
\* the call has been made with coefficients whose degree is at least 1
SolverCalled == solver.pc # "idle"

SolverLeading == solver.coeffs[Len(solver.coeffs)]

\* the input is degenerate: fewer than two coefficients, or a leading
\* coefficient whose magnitude sqrt(re*re + im*im) comes out as exactly 0
DegenerateInput ==
  \/ Len(solver.coeffs) < 2
  \/ MathSqrt(NumMul(SolverLeading.re, SolverLeading.re)
              + NumMul(SolverLeading.im, SolverLeading.im)) = 0

\* C6: for degenerate input the solver performs zero iterations and no
\* division and reports converged = true; with fewer than two coefficients
\* the root list is empty, with a leading coefficient of magnitude exactly 0
\* it holds exactly `degree` roots, all equal to 0.
C6_DegenerateInput ==
  (SolverCalled /\ DegenerateInput) =>
    /\ solver.pc = "done"
    /\ SolverResult.converged
    /\ SolverResult.iterations = 0
    /\ solverLog.changes = << >>
    /\ solverLog.divisions = {}
    /\ IF Len(solver.coeffs) < 2
       THEN SolverResult.roots = << >>
       ELSE /\ Len(SolverResult.roots) = Len(solver.coeffs) - 1
            /\ \A k \in 1..Len(SolverResult.roots) : SolverResult.roots[k] = COMPLEX_ZERO

\* C6 witness: a call with a non-zero leading coefficient whose magnitude
\* rounds to exactly 0 has returned degree-2 input's two zero roots
C6_Witness ==
  /\ solver.pc = "done"
  /\ Len(solver.coeffs) = 3
  /\ SolverLeading = Tiny
  /\ SolverResult.roots = <<COMPLEX_ZERO, COMPLEX_ZERO>>

\* C7: complexDivide is never invoked with a divisor of squared magnitude 0:
\* normalization divides only by a leading coefficient of non-zero magnitude
\* and a correction only by a denominator of magnitude at least 1e-15.
C7_NoZeroDivisor ==
  /\ solver.pc # "nonFinite"
  /\ \A d \in solverLog.divisions :
       /\ d.divisor.re * d.divisor.re + d.divisor.im * d.divisor.im # 0
       /\ NumMul(d.divisor.re, d.divisor.re) + NumMul(d.divisor.im, d.divisor.im) # 0
       /\ complexAbs(d.divisor) # 0
       /\ d.at = "correct" => ~LessThan(complexAbs(d.divisor), MIN_DENOMINATOR)

\* C7 witness: a palette of size 1 (all coefficients equal), degree 2; the
\* root guesses have coincided, one update was skipped for its too small
\* denominator and others divided
C7_Witness ==
  /\ solver.pc = "done"
  /\ Len(solver.coeffs) = 3
  /\ \A k \in 1..3 : solver.coeffs[k] = solver.coeffs[1]
  /\ solverLog.skipped # {}
  /\ \E d \in solverLog.divisions : d.at = "correct"
  /\ \E d \in solverLog.divisions : d.at = "normalize"

SolverIterated == solver.pc \in {"loop", "done"} /\ ~DegenerateInput

\* C9: for non-degenerate input, 0 <= iterations <= maxIter; converged =
\* false implies iterations = maxIter; converged = true implies the last
\* executed iteration's largest displacement was below the tolerance; no
\* iteration is executed after the first one whose largest displacement is
\* below the tolerance; the roots returned are the last ones computed.
C9_IterationCount ==
  SolverIterated =>
    /\ \A k \in 1..(Len(solverLog.changes) - 1) :
         ~LessThan(solverLog.changes[k], DEFAULT_TOLERANCE)
    /\ Len(solverLog.changes) <= solver.maxIter
    /\ solver.pc = "done" =>
         /\ SolverResult.iterations = Len(solverLog.changes)
         /\ 0 <= SolverResult.iterations
         /\ SolverResult.iterations <= solver.maxIter
         /\ ~SolverResult.converged =>
              /\ SolverResult.iterations = solver.maxIter
              /\ \A k \in 1..Len(solverLog.changes) :
                   ~LessThan(solverLog.changes[k], DEFAULT_TOLERANCE)
         /\ SolverResult.converged =>
              /\ SolverResult.iterations >= 1
              /\ LessThan(solverLog.changes[SolverResult.iterations], DEFAULT_TOLERANCE)
         /\ SolverResult.roots = solverLog.iterStart

\* C9 witness: a degree-2 solve that ran out of iterations unconverged
C9_Witness ==
  /\ solver.pc = "done"
  /\ Len(solver.coeffs) = 3
  /\ ~DegenerateInput
  /\ ~SolverResult.converged
  /\ SolverResult.iterations = solver.maxIter
  /\ solver.maxIter >= 3

\* what root k becomes when its correction is computed from the estimates
\* the iteration in progress began with
FromIterationStart(k) ==
  RootUpdate(solverLog.iterStart, 0, solver.monicCoeffs, k, solver.degree).roots[k + 1]

\* C22: an iteration is a simultaneous update: each root the iteration in
\* progress has processed is the estimate it began with, corrected by a
\* correction computed from the estimates the iteration began with (which is
\* what makes the outcome independent of the order of the roots)
C22_SimultaneousUpdate ==
  solver.pc = "loop" =>
    \A k \in 0..(solver.i - 1) : solver.roots[k + 1] = FromIterationStart(k)

\* the second root of an iteration has been corrected after the first one
\* moved, and is not what the estimates of the iteration's start give
C22_InPlace ==
  /\ solver.pc = "loop"
  /\ solver.i = 2
  /\ solver.roots[1] # solverLog.iterStart[1]
  /\ solver.roots[2] # FromIterationStart(1)
  /\ solver.roots[2] =
       RootUpdate([solverLog.iterStart EXCEPT ![1] = solver.roots[1]], 0,
                  solver.monicCoeffs, 1, solver.degree).roots[2]

\* the loop over i is at a root whose denominator is below MIN_DENOMINATOR
AtSmallDenominator ==
  /\ solver.pc = "loop"
  /\ solver.iter < solver.maxIter
  /\ solver.i < solver.degree
  /\ DenominatorTooSmall(computeDenominator(solver.roots, solver.i, solver.degree))

\* C23: when the denominator computed for root i is below 1e-15, the pass
\* over root i leaves every root as it was, divides nothing and leaves the
\* largest change of the iteration as it was (a displacement of zero), and
\* the loop goes on with root i + 1
C23_SkippedRoot ==
  [][AtSmallDenominator =>
       /\ solver'.roots = solver.roots
       /\ solverLog'.divisions = solverLog.divisions
       /\ solver'.maxChange = solver.maxChange
       /\ solver'.pc = "loop"
       /\ solver'.i = solver.i + 1
       /\ solver'.iter = solver.iter]_vars

\* an iteration of a quadratic has ended in which the first root moved onto
\* the second, whose update was then skipped: the largest change of the
\* iteration is that of the first root alone
C23_Witness ==
  /\ solver.degree = 2
  /\ \E it \in 0..MaxIterBound :
       /\ <<it, 0>> \notin solverLog.skipped
       /\ <<it, 1>> \in solverLog.skipped
       /\ Len(solverLog.changes) > it
       /\ solverLog.changes[it + 1] > 0

(***************************************************************************)
(* Claims about the batch size, checked under BatcherSpec                  *)
(***************************************************************************)
\* the batch sizes: the powers of two from 128 to 16384
BatchSizes == {Pow(2, k) : k \in 7..14}

\* |size * complexity - 128 * 1900|: the distance of size from the quotient
\* 128 * 1900 / complexity, in units of 1 / complexity
Distance(size, complexity) ==
  IF size * complexity >= 128 * 1900 THEN size * complexity - 128 * 1900
  ELSE 128 * 1900 - size * complexity

\* C24: for every degree in 1..31 and palette size in 1..30 getBatchSize
\* returns the power of two nearest to 128 * 1900 / (degree^2 * max(size, 1)),
\* clamped to [128, 16384]: the batch size than which no other is nearer to
\* the quotient
C24_NearestPowerOfTwo ==
  (batcher.pc = "done" /\ batcher.deg \in 1..31 /\ batcher.coeffCount \in 1..30) =>
    /\ batcher.result \in BatchSizes
    /\ \A size \in BatchSizes :
         Distance(batcher.result, Complexity(batcher.deg, batcher.coeffCount))
           <= Distance(size, Complexity(batcher.deg, batcher.coeffCount))

\* getBatchSize(2, 5): the quotient is 12160, nearer to 8192 (by 3968) than
\* to 16384 (by 4224), and 16384 was returned
C24_FartherReturned ==
  /\ batcher.pc = "done"
  /\ batcher.deg = 2
  /\ batcher.coeffCount = 5
  /\ batcher.result = 16384
  /\ Distance(8192, Complexity(2, 5)) < Distance(16384, Complexity(2, 5))

\* C25: for every degree >= 0 and palette size >= 0 getBatchSize returns a
\* power of two from 128 to 16384, and no smaller degree and no smaller
\* palette size is given a smaller batch
C25_RangeAndMonotone ==
  batcher.pc = "done" =>
    /\ batcher.result \in BatchSizes
    /\ \A deg \in BatchDegrees :
         deg <= batcher.deg => getBatchSize(deg, batcher.coeffCount) >= batcher.result
    /\ \A coeffCount \in BatchCoeffCounts :
         coeffCount <= batcher.coeffCount =>
           getBatchSize(batcher.deg, coeffCount) >= batcher.result

\* a call so costly that the base batch rounds to 0 has returned 128, and
\* degree 0 is given 16384 for the same palette
C25_Witness ==
  /\ batcher.pc = "done"
  /\ batcher.deg = CostlyDegree
  /\ MathRound(128 * 1900, Complexity(batcher.deg, batcher.coeffCount)) = 0
  /\ batcher.result = 128
  /\ getBatchSize(0, batcher.coeffCount) = 16384

(***************************************************************************)
(* Claims about the coefficient transforms, checked under GestureSpec      *)
(***************************************************************************)
\* the latest call of the gesture had the argument that changes nothing
NeutralCall ==
  \/ gesture.call.kind = "scale" /\ gesture.call.a = Scale
  \/ gesture.call.kind = "rotate" /\ gesture.call.a = 0
  \/ gesture.call.kind = "translate" /\ gesture.call.a = 0 /\ gesture.call.b = 0

====
